---- MODULE Spec2Model ----
(***************************************************************************)
(* AgenticRag: the agent control loop and its supporting state.            *)
(*                                                                         *)
(*   Spec         AgenticRAG.run of src/src/agent/agent.py (impl = "agent") *)
(*                and of src/src/agent/agent_refactored.py                 *)
(*                (impl = "refactored"), one session per behaviour         *)
(*   SpecParser   ModelResponseParser.parse_tool_calls                     *)
(*                (src/src/model/language_model.py)                        *)
(*   SpecMemory   SmolAgentMemoryManager                                   *)
(*                (src/src/memory/smol_memory_manager.py)                  *)
(*                                                                         *)
(* Texts are sequences of tokens.  A token stands for a chunk of           *)
(* characters: "B" and "E" are the literal markers <|FunctionCallBegin|>   *)
(* and <|FunctionCallEnd|>, "o1" and "o2" are two different JSON object    *)
(* literals of the form {"name": .., "parameters": {..}}, "n" is a JSON    *)
(* scalar, "ws" is whitespace, and "[", "]", "," are themselves.           *)
(***************************************************************************)
EXTENDS Integers, Sequences, FiniteSets, TLC

VARIABLES
    \* ---- AgenticRAG.run ----
    impl,               \* "agent" (agent.py) or "refactored" (agent_refactored.py)
    pc,                 \* the statement of run() that executes next
    max_retries,        \* self.max_retries
    max_tool_calls,     \* self.max_tool_calls
    max_iterations,     \* kwargs["max_iterations"] / state_manager.max_iterations
    kwargs,             \* the keyword arguments run() was called with
    state,              \* the session dict the code currently works on
    saved,              \* the main session dict while a sub-question runs
    tool_call_count,    \* local of _agent_loop
    pending,            \* tool calls of the batch not yet dispatched
    tool_results,       \* results of the batch so far
    all_tools_failed,   \* local of _agent_loop
    loop_ret,           \* who called _agent_loop: "main", "post_opt", "sub"
    proc_ret,           \* who called _analyze_query/_process...: "run", "opt"
    sub_idx,            \* index of the sub-question being processed
    sub_results,        \* state["sub_questions_results"], the statuses
    result,             \* the value run() returned
    escaped,            \* the exception that left run(), "none" if none
    mem_user,           \* the user query was recorded in the memory store
    mem_agent,          \* an agent answer was recorded in the memory store
    calls,              \* history: collaborator calls made so far (saturating)
    tool_runs,          \* history: tool invocations made so far (saturating)
    first_run,          \* history: what the first tool invocation was
    observe,            \* the write-only parts of the session this specification records
    executor,           \* a ToolExecutor and one execute_tool call on it
    \* ---- parse_tool_calls ----
    response,           \* the model text handed to the parser
    parse_pc,           \* "call" before the parser ran, "ret" after
    parse_result,       \* the returned list of tool calls
    parse_raised,       \* TRUE iff an exception left parse_tool_calls
    \* ---- SmolAgentMemoryManager ----
    max_history_size,   \* capacity N of the store
    max_compressed_size,\* self.max_compressed_size
    steps,              \* self.memory.steps, the ordered log
    current_step,       \* self.current_step
    knowledge_index,    \* self._knowledge_index: key -> seq of the TaskStep
    compressed_memory,  \* self.compressed_memory
    appended,           \* history: seq numbers of every entry ever appended
    only_interactions,  \* history: only add_interaction was called since the store was fresh
    last_op,            \* history: name of the last public operation
    key_status,         \* history: per key, "never" added, "fresh", or "stale" (added before the last eviction)
    last_compress,      \* history: the last compress_memory call since the store was fresh
    ret                 \* the value the last query returned, on the current store

parserVars == <<response, parse_pc, parse_result, parse_raised>>
memoryVars == <<max_history_size, max_compressed_size, steps, current_step,
                knowledge_index, compressed_memory, appended,
                only_interactions, last_op, key_status, last_compress, ret>>
agentVars == <<impl, pc, max_retries, max_tool_calls, max_iterations, kwargs, state,
               saved, tool_call_count, pending, tool_results, all_tools_failed,
               loop_ret, proc_ret, sub_idx, sub_results, result, escaped,
               mem_user, mem_agent, calls, tool_runs, first_run, observe,
               executor>>
vars == <<agentVars, parserVars, memoryVars>>

(***************************************************************************)
(* Bounds of the model.                                                    *)
(***************************************************************************)
MaxTextLen  == 4    \* every text of at most this many tokens is parsed
MaxCalls    == 2    \* longest tool-call array in the well-formed blocks
MaxPad      == 1    \* tokens around a well-formed block
MaxCapacity == 3    \* capacities 1..MaxCapacity of the memory store
MaxSteps    == 6    \* entries appended to one memory store
MaxResults  == 2    \* tool results in one update_with_tool_results call
MaxRetries    == 1  \* max_retries is drawn from 0..MaxRetries
MaxToolCalls  == 2  \* max_tool_calls is drawn from 0..MaxToolCalls
MaxIterations == 2  \* max_iterations (agent.py) is drawn from 0..MaxIterations
MaxBatch      == 2  \* tool calls in one model response
MaxSub        == 1  \* sub-questions of a decomposed query
MaxErrors     == 2  \* len(state["errors"]) is counted up to this value
MaxLog        == 1  \* len(state["tool_calls"]) is counted up to this value
MaxCompressedSize == 2  \* max_compressed_size is drawn from 1..MaxCompressedSize
MaxSummary    == 3  \* characters of a summary the model returns
MaxContext    == 2  \* characters of a context handed to get_context_with_memory
MaxEvalLen    == 3  \* tokens of an evaluation response

(***************************************************************************)
(* Python helpers: str.find, slicing, str.strip, list slicing.             *)
(***************************************************************************)
Min(a, b) == IF a < b THEN a ELSE b
Max(a, b) == IF a > b THEN a ELSE b

\* str.find: 0-based index of the first occurrence, -1 when absent
Find(s, tok) ==
    IF \E i \in 1..Len(s) : s[i] = tok
    THEN (CHOOSE i \in 1..Len(s) : s[i] = tok /\ \A j \in 1..(i-1) : s[j] # tok) - 1
    ELSE -1

\* s[a:b] with Python's treatment of negative and out-of-range indices
PyIndex(i, n) == IF i < 0 THEN Max(i + n, 0) ELSE Min(i, n)
PySlice(s, a, b) ==
    LET lo == PyIndex(a, Len(s))
        hi == PyIndex(b, Len(s))
    IN  IF lo >= hi THEN << >> ELSE SubSeq(s, lo + 1, hi)

\* s[a:]
PySliceFrom(s, a) == PySlice(s, a, Len(s))

\* str.strip
RECURSIVE LStrip(_)
LStrip(s) == IF s # << >> /\ Head(s) = "ws" THEN LStrip(Tail(s)) ELSE s
RECURSIVE RStrip(_)
RStrip(s) ==
    IF s # << >> /\ s[Len(s)] = "ws" THEN RStrip(SubSeq(s, 1, Len(s) - 1)) ELSE s
Strip(s) == LStrip(RStrip(s))

(***************************************************************************)
(* json.loads over token texts.  A value is a record                       *)
(* [kind, tok, items]: an atom (object literal or scalar) or a list.       *)
(***************************************************************************)
Atom(t)     == [kind |-> "atom", tok |-> t, items |-> << >>]
List(items) == [kind |-> "list", tok |-> "", items |-> items]
JsonFail    == [ok |-> FALSE, next |-> 0, val |-> Atom("")]

NoWs(s) == SelectSeq(s, LAMBDA t : t # "ws")

RECURSIVE ParseValue(_, _)
RECURSIVE ParseElems(_, _, _)
ParseValue(s, i) ==
    IF i > Len(s) THEN JsonFail
    ELSE IF s[i] \in {"o1", "o2", "n"}
         THEN [ok |-> TRUE, next |-> i + 1, val |-> Atom(s[i])]
    ELSE IF s[i] = "["
         THEN IF i + 1 <= Len(s) /\ s[i + 1] = "]"
              THEN [ok |-> TRUE, next |-> i + 2, val |-> List(<< >>)]
              ELSE ParseElems(s, i + 1, << >>)
    ELSE JsonFail
ParseElems(s, i, acc) ==
    LET v == ParseValue(s, i)
    IN  IF ~v.ok \/ v.next > Len(s) THEN JsonFail
        ELSE IF s[v.next] = ","
             THEN ParseElems(s, v.next + 1, Append(acc, v.val))
        ELSE IF s[v.next] = "]"
             THEN [ok |-> TRUE, next |-> v.next + 1, val |-> List(Append(acc, v.val))]
        ELSE JsonFail

\* json.loads: the whole text must be one value (whitespace is insignificant)
JsonLoads(s) ==
    LET t == NoWs(s)
        r == ParseValue(t, 1)
    IN  IF r.ok /\ r.next = Len(t) + 1 THEN r ELSE JsonFail

(***************************************************************************)
(* ModelResponseParser.parse_tool_calls                                    *)
(***************************************************************************)
\* ParseBody with the length of the begin marker forgotten in start_idx
ParseBody_NoMarkerLen(resp) ==
    IF Find(resp, "B") # -1 /\ Find(resp, "E") # -1
    THEN LET start_idx     == Find(resp, "B")
             end_idx       == Find(resp, "E")
             tool_call_str == Strip(PySlice(resp, start_idx, end_idx))
         IN  IF tool_call_str # << >>
             THEN LET r == JsonLoads(tool_call_str)
                  IN  IF ~r.ok
                      THEN [exc |-> TRUE, tool_calls |-> << >>]
                      ELSE IF r.val.kind = "list"
                           THEN [exc |-> FALSE, tool_calls |-> r.val.items]
                           ELSE [exc |-> FALSE, tool_calls |-> << r.val >>]
             ELSE [exc |-> FALSE, tool_calls |-> << >>]
    ELSE [exc |-> FALSE, tool_calls |-> << >>]

\* ParseBody with `or` in place of `and` in the test for the two markers
ParseBody_EitherMarker(resp) ==
    IF Find(resp, "B") # -1 \/ Find(resp, "E") # -1
    THEN LET start_idx     == Find(resp, "B") + 1
             end_idx       == Find(resp, "E")
             tool_call_str == Strip(PySlice(resp, start_idx, end_idx))
         IN  IF tool_call_str # << >>
             THEN LET r == JsonLoads(tool_call_str)
                  IN  IF ~r.ok
                      THEN [exc |-> TRUE, tool_calls |-> << >>]
                      ELSE IF r.val.kind = "list"
                           THEN [exc |-> FALSE, tool_calls |-> r.val.items]
                           ELSE [exc |-> FALSE, tool_calls |-> << r.val >>]
             ELSE [exc |-> FALSE, tool_calls |-> << >>]
    ELSE [exc |-> FALSE, tool_calls |-> << >>]

\* the statements inside the try block: the value of tool_calls when the
\* block ends, and whether an exception ended it
ParseBody(resp) ==
    IF Find(resp, "B") # -1 /\ Find(resp, "E") # -1
    THEN LET start_idx     == Find(resp, "B") + 1
             end_idx       == Find(resp, "E")
             tool_call_str == Strip(PySlice(resp, start_idx, end_idx))
         IN  IF tool_call_str # << >>
             THEN LET r == JsonLoads(tool_call_str)
                  IN  IF ~r.ok
                      THEN [exc |-> TRUE, tool_calls |-> << >>]
                      ELSE IF r.val.kind = "list"
                           THEN [exc |-> FALSE, tool_calls |-> r.val.items]
                           ELSE [exc |-> FALSE, tool_calls |-> << r.val >>]
             ELSE [exc |-> FALSE, tool_calls |-> << >>]
    ELSE [exc |-> FALSE, tool_calls |-> << >>]

\* a parser whose except clause is missing
ParseExceptCatches_Missing == FALSE

\* the except clause: `except Exception` swallows the exception
ParseExceptCatches == TRUE

parse_tool_calls(resp) ==
    LET b == ParseBody(resp)
    IN  [raised     |-> b.exc /\ ~ParseExceptCatches,
         tool_calls |-> b.tool_calls]

(***************************************************************************)
(* Inputs of the parser: every text of at most MaxTextLen tokens, and      *)
(* every well-formed block of up to MaxCalls objects (array or bare        *)
(* object, with optional whitespace inside the markers) surrounded by up   *)
(* to MaxPad arbitrary tokens on each side.                                *)
(***************************************************************************)
Tokens == {"B", "E", "[", "]", ",", "o1", "o2", "n", "ws"}
Objects == {"o1", "o2"}

SeqsUpTo(S, n) == UNION {[1..k -> S] : k \in 0..n}

RECURSIVE Join(_)
\* the elements of an array separated by commas
Join(objs) ==
    IF objs = << >> THEN << >>
    ELSE IF Len(objs) = 1 THEN objs
    ELSE << Head(objs), "," >> \o Join(Tail(objs))

ArrayOf(objs) == << "[" >> \o Join(objs) \o << "]" >>

Bodies ==
    {ArrayOf(objs) : objs \in SeqsUpTo(Objects, MaxCalls)}
        \cup {<< o >> : o \in Objects}
WsOpt == {<< >>, << "ws" >>}
BlockTexts ==
    {pre \o << "B" >> \o w1 \o body \o w2 \o << "E" >> \o post :
        pre \in SeqsUpTo(Tokens, MaxPad), post \in SeqsUpTo(Tokens, MaxPad),
        w1 \in WsOpt, w2 \in WsOpt, body \in Bodies}
Texts == SeqsUpTo(Tokens, MaxTextLen) \cup BlockTexts

ParserInit ==
    /\ response \in Texts
    /\ parse_pc = "call"
    /\ parse_result = << >>
    /\ parse_raised = FALSE

ParserIdle ==
    /\ response = << >>
    /\ parse_pc = "idle"
    /\ parse_result = << >>
    /\ parse_raised = FALSE

\* one call of parse_tool_calls(response)
Parse ==
    /\ parse_pc = "call"
    /\ LET r == parse_tool_calls(response)
       IN  /\ parse_result' = r.tool_calls
           /\ parse_raised' = r.raised
    /\ parse_pc' = "ret"
    /\ UNCHANGED <<response, memoryVars, agentVars>>

(***************************************************************************)
(* SmolAgentMemoryManager                                                  *)
(***************************************************************************)
Keys  == {"k1", "last_tool_results"}
Roles == {"user", "agent"}

ActionStep(n, obs) == [type |-> "ActionStep", seq |-> n, observations |-> obs, key |-> ""]
TaskStep(n, key)   == [type |-> "TaskStep", seq |-> n, observations |-> "", key |-> key]

\* self.memory.steps[-self.max_history_size+1:]
KeepRecent(s, n) == PySliceFrom(s, (0 - n) + 1)

\* _ensure_history_limit without `self._knowledge_index = {}`
ensure_history_limit_KeepIndex(s, idx, n) ==
    IF Len(s) >= n
    THEN [steps |-> KeepRecent(s, n), index |-> idx]
    ELSE [steps |-> s, index |-> idx]

\* _ensure_history_limit, as the pair <<steps, _knowledge_index>>
ensure_history_limit(s, idx, n) ==
    IF Len(s) >= n
    THEN [steps |-> KeepRecent(s, n), index |-> << >>]
    ELSE [steps |-> s, index |-> idx]

\* the index as a function on the keys it holds; << >> is the empty dict
IndexPut(idx, key, n) ==
    [k \in (DOMAIN idx) \cup {key} |-> IF k = key THEN n ELSE idx[k]]

\* get_knowledge returns None, or the entry of the key
None == [found |-> FALSE, step |-> 0]
GetKnowledge(idx, key) ==
    IF key \in DOMAIN idx THEN [found |-> TRUE, step |-> idx[key]] ELSE None

\* what a query returned: its name, its argument, and the entry or the text
Ret(op, key, entry, arg, text) ==
    [op |-> op, key |-> key, entry |-> entry, arg |-> arg, text |-> text]
NoRet == Ret("none", "", None, << >>, << >>)

\* does _ensure_history_limit drop entries of the log s?
Evicts(s, n) == Len(ensure_history_limit(s, << >>, n).steps) < Len(s)

NeverAdded == [k \in Keys |-> "never"]
MarkStale(ks) == [k \in Keys |-> IF ks[k] = "never" THEN "never" ELSE "stale"]
\* the key statuses after _ensure_history_limit ran on the log s
AfterEnsure(ks, s, n) == IF Evicts(s, n) THEN MarkStale(ks) ELSE ks
MarkFresh(ks, key) == [ks EXCEPT ![key] = "fresh"]

NoCompress == [called |-> FALSE, entries |-> 0, model |-> "none",
               summary |-> << >>, raised |-> FALSE]

MemoryInit ==
    /\ max_history_size \in 1..MaxCapacity
    /\ steps = << >>
    /\ current_step = 0
    /\ knowledge_index = << >>
    /\ compressed_memory = << >>
    /\ appended = << >>
    /\ only_interactions = TRUE
    /\ last_op = "init"
    /\ max_compressed_size = MaxCompressedSize
    /\ key_status = NeverAdded
    /\ last_compress = NoCompress
    /\ ret = NoRet

MemoryIdle ==
    /\ max_history_size = 1
    /\ steps = << >>
    /\ current_step = 0
    /\ knowledge_index = << >>
    /\ compressed_memory = << >>
    /\ appended = << >>
    /\ only_interactions = TRUE
    /\ last_op = "idle"
    /\ max_compressed_size = MaxCompressedSize
    /\ key_status = NeverAdded
    /\ last_compress = NoCompress
    /\ ret = NoRet

add_interaction(role) ==
    /\ last_op # "idle"
    /\ current_step < MaxSteps
    /\ LET e == ensure_history_limit(steps, knowledge_index, max_history_size)
           n == current_step + 1
       IN  /\ current_step' = n
           /\ steps' = Append(e.steps, ActionStep(n, role))
           /\ key_status' = AfterEnsure(key_status, steps, max_history_size)
           /\ knowledge_index' = e.index
           /\ appended' = Append(appended, n)
    /\ last_op' = "add_interaction"
    /\ UNCHANGED only_interactions
    /\ ret' = NoRet
    /\ UNCHANGED <<max_history_size, max_compressed_size, compressed_memory,
                   last_compress, parserVars, agentVars>>

add_knowledge(key) ==
    /\ last_op # "idle"
    /\ current_step < MaxSteps
    /\ LET e == ensure_history_limit(steps, knowledge_index, max_history_size)
           n == current_step + 1
       IN  /\ current_step' = n
           /\ steps' = Append(e.steps, TaskStep(n, key))
           /\ key_status' = MarkFresh(AfterEnsure(key_status, steps, max_history_size), key)
           /\ knowledge_index' = IndexPut(e.index, key, n)
           /\ appended' = Append(appended, n)
    /\ last_op' = "add_knowledge"
    /\ only_interactions' = FALSE
    /\ ret' = NoRet
    /\ UNCHANGED <<max_history_size, max_compressed_size, compressed_memory,
                   last_compress, parserVars, agentVars>>

\* the ActionSteps appended for the successful results of one call
RECURSIVE ToolSteps(_, _)
ToolSteps(results, n) ==
    IF results = << >> THEN << >>
    ELSE IF Head(results) = "success"
         THEN << ActionStep(n + 1, "TOOL_RESULT") >> \o ToolSteps(Tail(results), n + 1)
         ELSE ToolSteps(Tail(results), n)

Seqs(s) == [i \in 1..Len(s) |-> s[i].seq]

update_with_tool_results(results_in) ==
    /\ last_op # "idle"
    /\ current_step + Len(results_in) + 1 <= MaxSteps
    /\ IF results_in = << >>
       THEN UNCHANGED <<steps, current_step, knowledge_index, appended, key_status>>
       ELSE LET e    == ensure_history_limit(steps, knowledge_index, max_history_size)
                new  == ToolSteps(results_in, current_step)
                s1   == e.steps \o new
                n1   == current_step + Len(new)
                \* self.add_knowledge("last_tool_results", ...)
                e2   == ensure_history_limit(s1, e.index, max_history_size)
                ks1  == AfterEnsure(key_status, steps, max_history_size)
            IN  IF new # << >>
                THEN /\ current_step' = n1 + 1
                     /\ steps' = Append(e2.steps, TaskStep(n1 + 1, "last_tool_results"))
                     /\ knowledge_index' = IndexPut(e2.index, "last_tool_results", n1 + 1)
                     /\ appended' = appended \o Seqs(new) \o << n1 + 1 >>
                     /\ key_status' = MarkFresh(AfterEnsure(ks1, s1, max_history_size),
                                                "last_tool_results")
                ELSE /\ current_step' = current_step
                     /\ steps' = e.steps
                     /\ knowledge_index' = e.index
                     /\ appended' = appended
                     /\ key_status' = ks1
    /\ last_op' = "update_with_tool_results"
    /\ only_interactions' = FALSE
    /\ ret' = NoRet
    /\ UNCHANGED <<max_history_size, max_compressed_size, compressed_memory,
                   last_compress, parserVars, agentVars>>

add_final_answer ==
    /\ last_op # "idle"
    /\ current_step < MaxSteps
    /\ LET e == ensure_history_limit(steps, knowledge_index, max_history_size)
           n == current_step + 1
       IN  /\ current_step' = n
           /\ steps' = Append(e.steps, ActionStep(n, "FINAL_ANSWER"))
           /\ key_status' = AfterEnsure(key_status, steps, max_history_size)
           /\ knowledge_index' = e.index
           /\ appended' = Append(appended, n)
    /\ last_op' = "add_final_answer"
    /\ only_interactions' = FALSE
    /\ ret' = NoRet
    /\ UNCHANGED <<max_history_size, max_compressed_size, compressed_memory,
                   last_compress, parserVars, agentVars>>

\* a variant of reset that keeps the knowledge index
reset_KeepsIndex ==
    /\ last_op \notin {"idle", "init", "reset"}
    /\ steps' = << >>
    /\ compressed_memory' = << >>
    /\ key_status' = NeverAdded
    /\ last_compress' = NoCompress
    /\ ret' = NoRet
    /\ current_step' = 0
    /\ knowledge_index' = knowledge_index
    /\ appended' = << >>
    /\ last_op' = "reset"
    /\ only_interactions' = TRUE
    /\ UNCHANGED <<max_history_size, max_compressed_size, parserVars, agentVars>>

reset ==
    /\ last_op \notin {"idle", "init", "reset"}
    /\ steps' = << >>
    /\ compressed_memory' = << >>
    /\ key_status' = NeverAdded
    /\ last_compress' = NoCompress
    /\ ret' = NoRet
    /\ current_step' = 0
    /\ knowledge_index' = << >>
    /\ appended' = << >>
    /\ last_op' = "reset"
    /\ only_interactions' = TRUE
    /\ UNCHANGED <<max_history_size, max_compressed_size, parserVars, agentVars>>

(***************************************************************************)
(* compress_memory and get_context_with_memory.  A text is the sequence of *)
(* its characters; the fixed parts of the formats are single tokens.       *)
(***************************************************************************)
\* the heading of the summary section and the heading of the current
\* context in the f-string of get_context_with_memory
SummaryHeader == << "[SUMMARY_HEADING]", "\n" >>
CurrentHeader == << "\n", "\n", "[CURRENT_HEADING]", "\n" >>

\* f"[{len(steps)}...]": the summary used when the model fails
Placeholder(n) == << "[", ToString(n), "ENTRIES_TEXT]" >>

SummaryChars == {"s"}
Summaries    == SeqsUpTo(SummaryChars, MaxSummary)
ContextChars == {"x", "[CURRENT_HEADING]"}
Contexts     == SeqsUpTo(ContextChars, MaxContext)

\* what the object handed to compress_memory does: generate returns a text,
\* generate raises, generate returns something that is not a string (len
\* raises TypeError), or the object has no generate and is not a Model
ModelKinds == {"text", "raise", "nonstring", "unusable"}
ModelFailures == {"raise", "nonstring", "unusable"}

\* compress_memory where the except clause is missing
CompressExceptCatches_Missing == FALSE

\* `except Exception as e` at line 234 catches what the try block raises
CompressExceptCatches == TRUE

\* lines 227-229: the summary is cut to max_compressed_size characters
Truncated(t, size) ==
    IF Len(t) > size THEN SubSeq(t, 1, size) \o << ".", ".", "." >> ELSE t

\* compress_memory(model), lines 184-236
compress_memory(kind, t) ==
    /\ last_op # "idle"
    /\ IF steps = << >>
       THEN /\ compressed_memory' = << >>
            /\ last_compress' = [called |-> TRUE, entries |-> 0, model |-> kind,
                                 summary |-> << >>, raised |-> FALSE]
       ELSE IF kind = "text"
       THEN /\ compressed_memory' = Truncated(t, max_compressed_size)
            /\ last_compress' = [called |-> TRUE, entries |-> Len(steps),
                                 model |-> kind, summary |-> t, raised |-> FALSE]
       ELSE IF CompressExceptCatches
       THEN /\ compressed_memory' = Placeholder(Len(steps))
            /\ last_compress' = [called |-> TRUE, entries |-> Len(steps),
                                 model |-> kind, summary |-> << >>, raised |-> FALSE]
       ELSE /\ UNCHANGED compressed_memory
            /\ last_compress' = [called |-> TRUE, entries |-> Len(steps),
                                 model |-> kind, summary |-> << >>, raised |-> TRUE]
    /\ last_op' = "compress_memory"
    /\ only_interactions' = FALSE
    /\ ret' = NoRet
    /\ UNCHANGED <<max_history_size, max_compressed_size, steps, current_step,
                   knowledge_index, appended, key_status, parserVars, agentVars>>

\* get_context_with_memory that always builds the two sections
GetContextWithMemory_AlwaysWraps(summary, c) ==
    SummaryHeader \o summary \o CurrentHeader \o c

\* the string get_context_with_memory returns, lines 245-247
GetContextWithMemory(summary, c) ==
    IF summary # << >>
    THEN SummaryHeader \o summary \o CurrentHeader \o c
    ELSE c

\* get_context_with_memory(current_context): the store is not changed
get_context_with_memory(c) ==
    /\ last_op # "idle"
    /\ ret' = Ret("get_context_with_memory", "", None, c,
                  GetContextWithMemory(compressed_memory, c))
    /\ UNCHANGED <<max_history_size, max_compressed_size, steps, current_step,
                   knowledge_index, compressed_memory, appended,
                   only_interactions, last_op, key_status, last_compress,
                   parserVars, agentVars>>

\* get_knowledge(key): a lookup in the index, the store is not changed
get_knowledge(key) ==
    /\ last_op # "idle"
    /\ ret' = Ret("get_knowledge", key, GetKnowledge(knowledge_index, key), << >>, << >>)
    /\ UNCHANGED <<max_history_size, max_compressed_size, steps, current_step,
                   knowledge_index, compressed_memory, appended,
                   only_interactions, last_op, key_status, last_compress,
                   parserVars, agentVars>>

(***************************************************************************)
(* AgenticRAG (src/src/agent/agent.py): the session dict and the           *)
(* collaborators.  Texts are abstracted to what the code tests of them:    *)
(* an answer is "" (empty), "ws" (only whitespace), "short" (at most 10    *)
(* characters) or "long"; a context is "" or "c" (non-empty).  Every       *)
(* collaborator call either returns or raises.                             *)
(***************************************************************************)
AnswerTexts == {"", "ws", "short", "long"}
\* agent.py tests a text for emptiness only
ModelTexts  == {"", "long"}
ToolKinds   == {"retrieve_documents", "web_search", "unknown_tool", "nondict"}
Registered  == {"retrieve_documents", "web_search"}
Batches     == SeqsUpTo(ToolKinds, MaxBatch) \ {<< >>}
\* what tool.run does: returns a dict with documents, returns None, returns
\* a value json.dumps rejects, or raises
ToolOutcomes == {"docs", "none", "opaque", "raise"}
Plans        == {"regenerate", "re_retrieve", "decompose", "other"}

\* the names bound at module level by the import statements of agent.py
ImportedNames ==
    {"ABC", "abstractmethod", "Dict", "Any", "List", "Optional", "Union",
     "json", "logging", "BaseTool", "DocumentProcessor", "AgentEnvironment",
     "MemoryManager", "PromptManager", "BaseLanguageModel", "ModelResponseParser"}

\* time.sleep(1): a NameError unless the name `time` is bound
TimeSleep == IF "time" \in ImportedNames THEN "ok" ELSE "NameError"

CallCap == MaxRetries * MaxIterations * MaxToolCalls + 1

\* state["evaluation"]: absent, or the dict with the two entries that
\* _evaluate_answer reads ("absent" for a key the dict does not have)
Evaluation(need, rating) ==
    [present |-> TRUE, need_iteration |-> need, overall_rating |-> rating]
NoEvaluation ==
    [present |-> FALSE, need_iteration |-> "absent", overall_rating |-> "absent"]

\* history: what the evaluation model did on the last evaluation, and the
\* values of the two entries in the object it wrote, if it wrote one
EvalResponse(kind, text, need, rating) ==
    [kind |-> kind, text |-> text, need |-> need, rating |-> rating]
NoEvalResponse == EvalResponse("none", << >>, "absent", "absent")

\* the dict built at the start of run(); "none" for error is an absent key
\* history: what the three calls of _optimize_answer did and returned
OptResponse(critique, reflection, kind, text, action, details) ==
    [critique |-> critique, reflection |-> reflection, kind |-> kind,
     text |-> text, action |-> action, details |-> details]
NoOptResponse == OptResponse("none", "none", "none", << >>, "absent", FALSE)

InitState(st) ==
    [query |-> "q", original_query |-> "q", context |-> "", answer |-> "",
     tool_calls |-> 0, retries |-> 0, iterations |-> 0, status |-> st,
     action |-> "unset", sub_questions |-> 0, tool_usage_history |-> 0,
     errors |-> 0, error |-> "none", evaluation |-> NoEvaluation,
     eval_response |-> NoEvalResponse, opt_response |-> NoOptResponse,
     need_iteration |-> FALSE, plan |-> "none", is_sub |-> FALSE]

\* the dict built for a sub-question: no errors, tool_usage_history,
\* iterations or max_iterations keys (is_sub)
\* a variant in which the sub-question replaces original_query
SubState_OwnOriginal(ctx) ==
    [InitState("processing") EXCEPT !.context = ctx, !.is_sub = TRUE,
                                    !.original_query = "sub"]

SubState(ctx) ==
    [InitState("processing") EXCEPT !.context = ctx, !.is_sub = TRUE]

NoState  == [InitState("none") EXCEPT !.query = "none", !.original_query = "none"]
NoResult == [returned |-> FALSE, status |-> "none", answer |-> "",
             error |-> "none", iterations |-> 0, tool_usage |-> 0]

\* run() only writes some parts of the session (the error list, the
\* rewritten query, the plan, the tool usage history, ...) and never reads
\* them back; a specification records those named in `observe` and leaves
\* the others at their initial value
Observed == {"errors", "query", "plan", "evaluation", "query_analysis",
             "tool_calls", "tool_usage_history", "memory", "calls",
             "tool_runs", "first_run", "opt_response", "kwargs"}
Obs(f, new, old) == IF f \in observe THEN new ELSE old

\* state["errors"].append(..)
AddErr(s) == [s EXCEPT !.errors = Obs("errors", Min(@ + 1, MaxErrors), @)]

\* k more collaborator calls
Count(k) == calls' = Obs("calls", Min(calls + k, CallCap), calls)

\* k more tool invocations (self.tools[tool_name].run, tool.run)
RunCap == MaxToolCalls + 1
CountRuns(k) == tool_runs' = Obs("tool_runs", Min(tool_runs + k, RunCap), tool_runs)
runVars == <<tool_runs, first_run>>

\* the first tool invocation of a session: was it the only call of its
\* batch, made for the session itself (not for a sub-question), a retrieval
\* that returned documents?
FirstRun(single, tool, out) ==
    first_run' = Obs("first_run",
                     IF first_run # "none" THEN first_run
                     ELSE IF single /\ tool = "retrieve_documents" /\ out = "docs"
                     THEN "retrieval_docs" ELSE "other",
                     first_run)

\* run(query, **kwargs): the max_iterations keyword is given or left out
Given(n) == [given |-> TRUE, max_iterations |-> n]
Omitted == [given |-> FALSE, max_iterations |-> 0]

\* line 109: kwargs.get("max_iterations", 3)
DefaultMaxIterations == 3
KwargsGet(kw) == IF kw.given THEN kw.max_iterations ELSE DefaultMaxIterations

configVars == <<impl, max_retries, max_tool_calls, max_iterations, kwargs, observe,
                executor>>
passVars   == <<tool_call_count, pending, tool_results, all_tools_failed>>
procVars   == <<saved, sub_idx, sub_results>>
outVars    == <<result, escaped>>
memVars    == <<mem_user, mem_agent>>
otherVars  == <<parserVars, memoryVars>>

\* no ToolExecutor call is under way
NoExecution == [raised |-> "none", invocations |-> << >>, success |-> FALSE,
                result |-> "None", error |-> "None"]
NoExecutor == [pc |-> "idle", tools |-> {}, name |-> "none",
               parameters |-> "none", outcome |-> "none", ret |-> NoExecution]
ExecutorIdle == executor = NoExecutor

AgentIdle ==
    /\ ExecutorIdle
    /\ impl = "agent" /\ pc = "idle"
    /\ max_retries = 0 /\ max_tool_calls = 0 /\ max_iterations = 0
    /\ kwargs = Omitted
    /\ state = NoState /\ saved = NoState
    /\ tool_call_count = 0 /\ pending = << >> /\ tool_results = << >>
    /\ all_tools_failed = TRUE
    /\ loop_ret = "main" /\ proc_ret = "run"
    /\ sub_idx = 0 /\ sub_results = << >>
    /\ result = NoResult /\ escaped = "none"
    /\ mem_user = FALSE /\ mem_agent = FALSE
    /\ calls = 0 /\ tool_runs = 0 /\ first_run = "none" /\ observe = {}

\* run(), lines 94-122: record the query, build the state, tell the environment
run_start ==
    /\ pc = "start" /\ impl = "agent"
    /\ \E mem_ok \in BOOLEAN, env_ok \in BOOLEAN :
        /\ mem_user' = Obs("memory", mem_ok, mem_user)
        /\ state' = IF env_ok THEN InitState("processing")
                    ELSE AddErr(InitState("error"))
    /\ pc' = "retry_head"
    /\ UNCHANGED <<configVars, runVars, passVars, procVars, outVars, mem_agent, calls,
                   loop_ret, proc_ret, otherVars>>

\* run(), line 124: while state["retries"] <= self.max_retries
run_retry_head ==
    /\ pc = "retry_head"
    /\ IF state.retries <= max_retries
       THEN pc' = "analyze" /\ proc_ret' = "run"
       ELSE pc' = "return" /\ UNCHANGED proc_ret
    /\ UNCHANGED <<configVars, runVars, state, passVars, procVars, outVars, memVars,
                   calls, loop_ret, otherVars>>

\* where control goes when _analyze_query or _process_query_based_on_analysis
\* raises: the except clause of run() (171) or of _optimize_answer (888)
RaiseFromProcess(s) ==
    IF proc_ret = "run"
    THEN /\ state' = s
         /\ pc' = "retry_handler"
    ELSE /\ state' = AddErr(s)
         /\ pc' = "opt_done"

\* where control goes when _process_query_based_on_analysis returns s
ReturnFromProcess(s) ==
    /\ state' = s
    /\ IF proc_ret = "run"
       THEN IF s.status = "error"
            THEN pc' = "retry_handler" /\ UNCHANGED loop_ret
            ELSE pc' = "loop_entry" /\ loop_ret' = "main"
       ELSE pc' = "opt_done" /\ UNCHANGED loop_ret

\* _analyze_query, lines 474-519, and the status test of run() at 131
analyze_query ==
    /\ pc = "analyze"
    /\ \/ \E k \in {0, 1} :      \* the prompt provider or the model raises
            /\ Count(k)
            /\ RaiseFromProcess(state)
       \/ \E kind \in {"none", "rewrite", "decompose"}, n \in 0..MaxSub :
            /\ kind # "decompose" => n = 0
            /\ Count(1)
            /\ LET s == [state EXCEPT
                            !.query = Obs("query", IF kind = "rewrite" THEN "rw" ELSE @, @),
                            !.action = IF kind = "decompose" /\ n = 0
                                       THEN "nokey" ELSE kind,
                            !.sub_questions = n]
               IN  /\ state' = s
                   /\ IF proc_ret = "run" /\ s.status = "error"
                      THEN pc' = "retry_handler"
                      ELSE pc' = "process"
    /\ UNCHANGED <<configVars, runVars, passVars, procVars, outVars, memVars,
                   loop_ret, proc_ret, otherVars>>

\* state["query_analysis"] is read by _process_query_based_on_analysis only
Analysed(s) ==
    [s EXCEPT !.action = Obs("query_analysis", @, "unset"),
              !.sub_questions = Obs("query_analysis", @, 0)]

\* _process_query_based_on_analysis, lines 528-533 and 575
process_query ==
    /\ pc = "process"
    /\ IF state.action = "decompose" /\ state.sub_questions > 0
       THEN /\ sub_results' = << >>
            /\ sub_idx' = 1
            /\ pc' = "sub_start"
            /\ UNCHANGED <<state, loop_ret>>
       ELSE /\ ReturnFromProcess(Analysed(state))
            /\ UNCHANGED <<sub_results, sub_idx>>
    /\ UNCHANGED <<configVars, runVars, passVars, saved, outVars, memVars, calls,
                   proc_ret, otherVars>>

\* lines 535-548: the next sub-question gets its own state and agent loop
process_sub_start ==
    /\ pc = "sub_start"
    /\ IF sub_idx <= state.sub_questions
       THEN /\ saved' = state
            /\ state' = SubState(state.context)
            /\ loop_ret' = "sub"
            /\ pc' = "loop_entry"
       ELSE /\ pc' = "synthesize"
            /\ state' = Analysed(state)
            /\ UNCHANGED <<saved, loop_ret>>
    /\ UNCHANGED <<configVars, runVars, passVars, sub_idx, sub_results, outVars,
                   memVars, calls, proc_ret, otherVars>>

\* lines 550-559: collect the result of the sub-question
process_sub_done ==
    /\ pc = "loop_return" /\ loop_ret = "sub"
    /\ tool_call_count' = 0       \* the frame of _agent_loop is gone
    /\ sub_results' = Append(sub_results, state.status)
    /\ state' = [saved EXCEPT !.context = "c"]
    /\ saved' = NoState
    /\ sub_idx' = sub_idx + 1
    /\ pc' = "sub_start"
    /\ UNCHANGED <<configVars, runVars, pending, tool_results, all_tools_failed, outVars, memVars, calls, loop_ret,
                   proc_ret, otherVars>>

\* lines 562-575: the final answer from the sub-answers
process_synthesize ==
    /\ pc = "synthesize"
    /\ \/ \E k \in {0, 1} :
            /\ Count(k)
            /\ RaiseFromProcess(state)
            /\ UNCHANGED loop_ret
       \/ \E a \in ModelTexts :
            /\ Count(1)
            /\ ReturnFromProcess([state EXCEPT !.answer = a, !.status = "success"])
    /\ UNCHANGED <<configVars, runVars, passVars, procVars, outVars, memVars,
                   proc_ret, otherVars>>

(***************************************************************************)
(* _agent_loop, lines 209-472                                              *)
(***************************************************************************)
\* lines 216-222
agent_loop_entry ==
    /\ pc = "loop_entry"
    /\ tool_call_count' = 0
    /\ pc' = "loop_head"
    /\ UNCHANGED <<configVars, runVars, state, pending, tool_results, all_tools_failed,
                   procVars, outVars, memVars, calls, loop_ret, proc_ret, otherVars>>

\* a variant of the loop condition that starts a pass whatever the count
agent_loop_head_NoLimit ==
    /\ pc = "loop_head"
    /\ pc' = "pass_prompt"
    /\ UNCHANGED <<configVars, runVars, state, passVars, procVars, outVars, memVars,
                   calls, loop_ret, proc_ret, otherVars>>

\* line 224: while tool_call_count < self.max_tool_calls
agent_loop_head ==
    /\ pc = "loop_head"
    /\ pc' = IF tool_call_count < max_tool_calls THEN "pass_prompt" ELSE "loop_exit"
    /\ UNCHANGED <<configVars, runVars, state, passVars, procVars, outVars, memVars,
                   calls, loop_ret, proc_ret, otherVars>>

\* the locals of a pass (tool_calls, tool_results, all_tools_failed) are
\* assigned anew before the next pass reads them
EndPass ==
    /\ pending' = << >>
    /\ tool_results' = << >>
    /\ all_tools_failed' = TRUE

\* the except clause at 443-447 for an exception in the body of a pass:
\* state["errors"].append(..) and continue; the append is a KeyError on a
\* sub-question state, which the except clause at 464-470 turns into error
PassHandler(s) ==
    /\ IF s.is_sub
       THEN /\ state' = [s EXCEPT !.status = "error", !.error = "fatal"]
            /\ pc' = "loop_return"
       ELSE /\ state' = AddErr(s)
            /\ pc' = "loop_head"
    /\ EndPass

\* lines 230-264: memory update and compression (failures are swallowed),
\* tool usage text, prompt assembly
pass_prompt ==
    /\ pc = "pass_prompt"
    /\ \E k \in {0, 1}, prompt_ok \in BOOLEAN :
        /\ Count(k)          \* compress_memory asks the model, or not
        /\ IF prompt_ok
           THEN pc' = "pass_generate" /\ UNCHANGED state
           ELSE /\ state' = [state EXCEPT !.status = "error", !.error = "prompt"]
                /\ pc' = "loop_return"
    /\ UNCHANGED <<configVars, runVars, passVars, procVars, outVars, memVars,
                   loop_ret, proc_ret, otherVars>>

\* lines 266-310: tool-aware generation, parsing, the direct answer
pass_generate ==
    /\ pc = "pass_generate"
    /\ \/ \* generate_with_tools raises, the simple_answer fallback succeeds
          \E a \in ModelTexts :
            /\ Count(2)
            /\ state' = [state EXCEPT !.answer = a, !.status = "success"]
            /\ pc' = "loop_return"
            /\ UNCHANGED <<pending, tool_results, all_tools_failed>>
       \/ \* generate_with_tools raises and so does the fallback
          \E k \in {1, 2} :
            /\ Count(k)
            /\ state' = [state EXCEPT !.status = "error", !.error = "model"]
            /\ pc' = "loop_return"
            /\ UNCHANGED <<pending, tool_results, all_tools_failed>>
       \/ \* the response holds no tool call: it is the answer
          \E a \in ModelTexts :
            /\ Count(1)
            /\ state' = [state EXCEPT !.answer = a, !.status = "success"]
            /\ pc' = "loop_exit"
            /\ UNCHANGED <<pending, tool_results, all_tools_failed>>
       \/ \* the response holds a batch of tool calls
          \E b \in Batches :
            /\ Count(1)
            /\ pending' = b
            /\ tool_results' = << >>
            /\ all_tools_failed' = TRUE
            /\ pc' = "pass_dispatch"
            /\ UNCHANGED state
    /\ UNCHANGED <<configVars, runVars, tool_call_count, procVars, outVars, memVars,
                   loop_ret, proc_ret, otherVars>>

ToolResult(st, tool, kind) == [status |-> st, tool |-> tool, kind |-> kind]

\* lines 312-354: one turn of `for tool_call in tool_calls`
pass_dispatch ==
    /\ pc = "pass_dispatch"
    /\ IF pending = << >>
       THEN /\ pc' = "pass_update"
            /\ UNCHANGED <<state, passVars, calls, runVars>>
       ELSE LET tool_call == Head(pending)
            IN  IF tool_call = "nondict"
                THEN \* tool_call.get raises AttributeError
                     /\ PassHandler(state)
                     /\ UNCHANGED <<tool_call_count, calls, runVars>>
                ELSE IF tool_call \notin Registered
                THEN /\ tool_results' =
                            Append(tool_results, ToolResult("error", tool_call, "unknown"))
                     /\ pending' = Tail(pending)
                     /\ pc' = "pass_dispatch"
                     /\ UNCHANGED <<state, tool_call_count, all_tools_failed, calls, runVars>>
                ELSE \E out \in ToolOutcomes :
                     /\ Count(1)
                     /\ CountRuns(1)
                     /\ FirstRun(Len(pending) = 1 /\ tool_results = << >>
                                     /\ ~state.is_sub, tool_call, out)
                     /\ tool_results' = Append(tool_results,
                            IF out = "raise" THEN ToolResult("error", tool_call, "raise")
                            ELSE ToolResult("success", tool_call, out))
                     /\ all_tools_failed' = (all_tools_failed /\ out = "raise")
                     /\ tool_call_count' = tool_call_count + 1
                     /\ pending' = IF tool_call_count + 1 >= max_tool_calls
                                   THEN << >> ELSE Tail(pending)
                     /\ pc' = "pass_dispatch"
                     /\ UNCHANGED state
    /\ UNCHANGED <<configVars, procVars, outVars, memVars, loop_ret, proc_ret,
                   otherVars>>

\* the results of the batch that count as successful
Successes(rs) == SelectSeq(rs, LAMBDA r : r.status = "success")

\* line 379: the length tool_usage_history is kept to
UsageLimit == 3
\* lengths above the limit are recorded as one
UsageCap == UsageLimit + 1

\* a variant that records no tool usage
UsageAdded_NotRecorded(s, rs) == 0

\* lines 362-382: entries added to tool_usage_history, none for a state
\* without that key and none for a result that is not a dict
UsageAdded(s, rs) ==
    IF s.is_sub THEN 0
    ELSE Len(SelectSeq(rs, LAMBDA r : r.status = "success"
                                      /\ r.tool = "retrieve_documents"
                                      /\ r.kind = "docs"))

\* lines 396-404: is text added to the context?  Formatting None raises,
\* which ends the loop over the results
ContextAdded(rs) ==
    IF rs = << >> THEN FALSE
    ELSE IF Head(rs).kind = "none" THEN FALSE
    ELSE TRUE

\* lines 356-404: log the batch, tool usage history, print, context
pass_update ==
    /\ pc = "pass_update"
    /\ LET s1 == [state EXCEPT
                    !.tool_calls = Obs("tool_calls", Min(@ + 1, MaxLog), @),
                    !.tool_usage_history = Obs("tool_usage_history",
                          Min(@ + UsageAdded(state, tool_results), UsageLimit), @)]
           ok == Successes(tool_results)
       IN  IF \E i \in 1..Len(ok) : ok[i].kind = "opaque"
           THEN \* json.dumps(result['result']) raises at 391
                PassHandler(s1)
           ELSE /\ state' = [s1 EXCEPT !.context =
                                IF ContextAdded(ok) THEN "c" ELSE @]
                /\ pc' = "pass_finish"
                /\ pending' = << >>
                /\ tool_results' = << >>
                /\ UNCHANGED all_tools_failed
    /\ UNCHANGED <<configVars, runVars, tool_call_count, procVars, outVars, memVars,
                   calls, loop_ret, proc_ret, otherVars>>

\* lines 406-424: every tool call of the pass failed
pass_all_failed ==
    /\ pc = "pass_finish" /\ all_tools_failed
    /\ \/ \* the prompt provider raises
          /\ PassHandler(state)
          /\ Count(0)
       \/ \E a \in ModelTexts :
          /\ Count(1)
          /\ state' = [state EXCEPT !.answer = a, !.status = "success"]
          /\ pc' = "loop_return"
          /\ EndPass
       \/ /\ Count(1)
          /\ state' = [state EXCEPT !.status = "error", !.error = "all_tools"]
          /\ pc' = "loop_return"
          /\ EndPass
    /\ UNCHANGED <<configVars, runVars, tool_call_count, procVars, outVars, memVars,
                   loop_ret, proc_ret, otherVars>>

\* lines 426-442: answer from the context, when there is one
pass_answer ==
    /\ pc = "pass_finish" /\ ~all_tools_failed
    /\ IF state.context # ""
       THEN \/ \E a \in ModelTexts :
               /\ Count(1)
               /\ state' = [state EXCEPT !.answer = a, !.status = "success"]
               /\ pc' = "loop_exit"
            \/ \E k \in {0, 1} :
               /\ Count(k)
               /\ pc' = "loop_head"
               /\ UNCHANGED state
       ELSE /\ pc' = "loop_head"
            /\ UNCHANGED <<state, calls>>
    /\ EndPass
    /\ UNCHANGED <<configVars, runVars, tool_call_count, procVars, outVars, memVars,
                   loop_ret, proc_ret, otherVars>>


\* a variant that generates again after the loop whatever the status is
agent_loop_exit_AlwaysFallback ==
    /\ pc = "loop_exit"
    /\ \/ \E a \in ModelTexts :
          /\ Count(1)
          /\ state' = [state EXCEPT !.answer = a, !.status = "success"]
       \/ \E k \in {0, 1} :
          /\ Count(k)
          /\ state' = [state EXCEPT !.status = "error", !.error = "max_calls"]
    /\ pc' = "loop_return"
    /\ UNCHANGED <<configVars, runVars, passVars, procVars, outVars, memVars,
                   loop_ret, proc_ret, otherVars>>

\* lines 449-463: after the loop, the fallback for a state still processing
agent_loop_exit ==
    /\ pc = "loop_exit"
    /\ IF state.status = "processing"
       THEN \/ \E a \in ModelTexts :
               /\ Count(1)
               /\ state' = [state EXCEPT !.answer = a, !.status = "success"]
            \/ \E k \in {0, 1} :
               /\ Count(k)
               /\ state' = [state EXCEPT !.status = "error", !.error = "max_calls"]
       ELSE UNCHANGED <<state, calls>>
    /\ pc' = "loop_return"
    /\ UNCHANGED <<configVars, runVars, passVars, procVars, outVars, memVars,
                   loop_ret, proc_ret, otherVars>>

(***************************************************************************)
(* run(), lines 139-207: after the loop, evaluation, retries, memory       *)
(***************************************************************************)
\* lines 140-142: the first agent loop of the attempt returned
loop_return_main ==
    /\ pc = "loop_return" /\ loop_ret = "main"
    /\ tool_call_count' = 0       \* the frame of _agent_loop is gone
    /\ pc' = IF state.status = "error" THEN "retry_handler" ELSE "eval_head"
    /\ UNCHANGED <<configVars, runVars, state, pending, tool_results, all_tools_failed, procVars, outVars, memVars,
                   calls, loop_ret, proc_ret, otherVars>>

\* the except clause at 161-166 of the evaluation loop
InnerHandler(s) ==
    /\ state' = [AddErr(s) EXCEPT !.iterations = @ + 1]
    /\ pc' = "eval_head"

\* lines 155-158: the agent loop after an optimization returned
loop_return_post_opt ==
    /\ pc = "loop_return" /\ loop_ret = "post_opt"
    /\ tool_call_count' = 0       \* the frame of _agent_loop is gone
    /\ IF state.status = "error"
       THEN InnerHandler(state)
       ELSE /\ state' = [state EXCEPT !.iterations = @ + 1]
            /\ pc' = "eval_head"
    /\ UNCHANGED <<configVars, runVars, pending, tool_results, all_tools_failed, procVars, outVars, memVars,
                   calls, loop_ret, proc_ret, otherVars>>

\* line 145: while status == "success" and iterations < max_iterations
eval_head ==
    /\ pc = "eval_head"
    /\ pc' = IF state.status = "success" /\ state.iterations < max_iterations
             THEN "evaluate" ELSE "after_eval"
    /\ UNCHANGED <<configVars, runVars, state, passVars, procVars, outVars, memVars,
                   calls, loop_ret, proc_ret, otherVars>>

(***************************************************************************)
(* _evaluate_answer, lines 654-762.  An evaluation response is a sequence  *)
(* of tokens: "{", "}", and "m" for any other text; between braces "m" is  *)
(* the text of the members of the object.                                  *)
(***************************************************************************)
EvalTokens == {"{", "}", "m"}
EvalTexts  == SeqsUpTo(EvalTokens, MaxEvalLen)
\* what the prompt provider and the model do on an evaluation
EvalKinds  == {"prompt_raise", "model_raise", "nonstring", "text"}
\* "need_iteration": the two Chinese answers (yes: U+662F, no: U+5426), the
\* JSON boolean true, or no such member
NeedValues   == {"yes_zh", "no_zh", "json_true", "absent"}
\* "overall_rating": U+5DEE, U+8F83 U+5DEE, U+4E00 U+822C, or no such member
RatingValues == {"very_poor", "poor", "average", "absent"}

\* str.rindex: the 0-based index of the last occurrence (-1 if none)
RFind(s, tok) ==
    IF \E i \in 1..Len(s) : s[i] = tok
    THEN (CHOOSE i \in 1..Len(s) : s[i] = tok /\ \A j \in (i+1)..Len(s) : s[j] # tok) - 1
    ELSE -1

\* the fallback evaluation of lines 683-687, 698-702, 717-721 and 724-728
NeutralEvaluation == Evaluation("no_zh", "average")

\* json.loads on a slice: an object without members, an object with
\* members, or a ValueError
EvalJsonLoads(slice, need, rating) ==
    IF slice = << "{", "}" >> THEN Evaluation("absent", "absent")
    ELSE IF slice = << "{", "m", "}" >> THEN Evaluation(need, rating)
    ELSE JsonFail

\* a variant whose fallback for an unparseable response asks for an iteration
ParseEvaluation_FallbackIterates(text, need, rating) ==
    IF Find(text, "{") >= 0 /\ Find(text, "}") >= 0
    THEN LET start_idx == Find(text, "{")
             end_idx   == RFind(text, "}") + 1
             ev == EvalJsonLoads(PySlice(text, start_idx, end_idx), need, rating)
         IN  IF ev = JsonFail THEN Evaluation("yes_zh", "average") ELSE ev
    ELSE Evaluation("yes_zh", "average")

\* lines 707-728: the evaluation dict got from the response text
ParseEvaluation(text, need, rating) ==
    IF Find(text, "{") >= 0 /\ Find(text, "}") >= 0
    THEN LET start_idx == Find(text, "{")
             end_idx   == RFind(text, "}") + 1
             ev == EvalJsonLoads(PySlice(text, start_idx, end_idx), need, rating)
         IN  IF ev = JsonFail THEN NeutralEvaluation ELSE ev
    ELSE NeutralEvaluation

\* lines 741-746: evaluation.get("need_iteration", no) == yes or
\* evaluation.get("overall_rating", "") in [poor, very poor]
NeedIteration(ev) ==
    \/ ev.need_iteration = "yes_zh"
    \/ ev.overall_rating \in {"poor", "very_poor"}

\* _evaluate_answer, lines 654-762, and lines 148-160 of run()
evaluate_answer ==
    /\ pc = "evaluate"
    /\ IF state.answer = ""
       THEN /\ InnerHandler([state EXCEPT !.status = "error", !.error = "no_answer"])
            /\ Count(0)
       ELSE \E kind \in EvalKinds, text \in EvalTexts,
               need \in NeedValues, rating \in RatingValues :
            /\ kind # "text" => text = << >>
            /\ (kind # "text" \/ \A i \in 1..Len(text) : text[i] # "m")
                   => (need = "absent" /\ rating = "absent")
            /\ LET ev == IF kind = "text" THEN ParseEvaluation(text, need, rating)
                         ELSE NeutralEvaluation
                   ni == NeedIteration(ev)
               IN  /\ Count(IF kind = "prompt_raise" THEN 0 ELSE 1)
                   /\ state' = [state EXCEPT
                        !.evaluation = Obs("evaluation", ev, @),
                        !.eval_response =
                            Obs("evaluation", EvalResponse(kind, text, need, rating), @),
                        !.need_iteration = Obs("evaluation", ni, @)]
                   /\ pc' = IF ni THEN "optimize" ELSE "after_eval"
    /\ UNCHANGED <<configVars, runVars, passVars, procVars, outVars, memVars,
                   loop_ret, proc_ret, otherVars>>

\* state["optimization_plan"]: next_action ("absent" for a dict without that
\* key) and whether the dict has the key action_details
Plan(action, details) == [next_action |-> action, details |-> details]
\* the plan of lines 828-831, 851-854 and 857-860
Regenerate == Plan("regenerate", TRUE)

\* json.loads on the slice of the synthesis output
PlanJsonLoads(slice, action, details) ==
    IF slice = << "{", "}" >> THEN Plan("absent", FALSE)
    ELSE IF slice = << "{", "m", "}" >> THEN Plan(action, details)
    ELSE JsonFail

\* a variant that keeps the action of an output that is not an object
ParsePlan_KeepsAction(text, action, details) ==
    IF Find(text, "{") >= 0 /\ Find(text, "}") >= 0
    THEN LET start_idx == Find(text, "{")
             end_idx   == RFind(text, "}") + 1
             p == PlanJsonLoads(PySlice(text, start_idx, end_idx), action, details)
         IN  IF p = JsonFail THEN Plan(action, details) ELSE p
    ELSE Regenerate

\* lines 844-860: the plan got from the synthesis output
ParsePlan(text, action, details) ==
    IF Find(text, "{") >= 0 /\ Find(text, "}") >= 0
    THEN LET start_idx == Find(text, "{")
             end_idx   == RFind(text, "}") + 1
             p == PlanJsonLoads(PySlice(text, start_idx, end_idx), action, details)
         IN  IF p = JsonFail THEN Regenerate ELSE p
    ELSE Regenerate

\* a variant of line 880 that replaces the query by the focus text
FocusQuery_Replaces(q) == "focus"

\* line 880: state["query"] += focus text
FocusQuery(q) == IF q \in {"q", "q_focus"} THEN "q_focus" ELSE "rw_focus"

\* what a sub-call of _optimize_answer does: the prompt provider raises, the
\* model raises, or the model returns
SubCalls ==
    IF "opt_response" \in observe THEN {"prompt_raise", "model_raise", "ok"}
    ELSE {"prompt_raise", "ok"}     \* the two differ in what is recorded only
\* the synthesis outputs; when they are not recorded, one output without an
\* object and one with an object stand for all
OptTexts ==
    IF "opt_response" \in observe THEN EvalTexts
    ELSE {<< >>, << "{", "m", "}" >>}

\* _optimize_answer, lines 764-909: self-critique, reflection, synthesis,
\* the plan and its effect
optimize_answer ==
    /\ pc = "optimize"
    /\ \E critique \in SubCalls, reflection \in SubCalls, kind \in EvalKinds,
          text \in OptTexts, action \in Plans \cup {"absent"}, details \in BOOLEAN :
        /\ kind # "text" => text = << >>
        /\ (kind # "text" \/ \A i \in 1..Len(text) : text[i] # "m")
               => (action = "absent" /\ ~details)
        /\ details => action \in {"re_retrieve", "decompose"}
        /\ LET plan == IF kind = "text" THEN ParsePlan(text, action, details)
                       ELSE Regenerate
               s == [state EXCEPT
                        !.plan = Obs("plan", plan.next_action, @),
                        !.opt_response = Obs("opt_response",
                            OptResponse(critique, reflection, kind, text,
                                        action, details), @)]
           IN  /\ Count((IF critique = "prompt_raise" THEN 0 ELSE 1)
                        + (IF reflection = "prompt_raise" THEN 0 ELSE 1)
                        + (IF kind = "prompt_raise" THEN 0 ELSE 1))
               /\ IF plan.next_action = "re_retrieve"
                  THEN /\ state' = [s EXCEPT
                              !.context = "",
                              !.query = Obs("query",
                                  IF plan.details THEN FocusQuery(@) ELSE @, @)]
                       /\ pc' = "opt_done"
                       /\ UNCHANGED proc_ret
                  ELSE IF plan.next_action = "decompose" /\ plan.details
                  THEN /\ state' = s
                       /\ proc_ret' = "opt"
                       /\ pc' = "analyze"
                  ELSE /\ state' = s
                       /\ pc' = "opt_done"
                       /\ UNCHANGED proc_ret
    /\ UNCHANGED <<configVars, runVars, passVars, procVars, outVars, memVars,
                   loop_ret, otherVars>>

\* lines 153-155: _optimize_answer returned
optimize_done ==
    /\ pc = "opt_done"
    /\ IF state.status = "error"
       THEN InnerHandler(state) /\ UNCHANGED loop_ret
       ELSE /\ loop_ret' = "post_opt"
            /\ pc' = "loop_entry"
            /\ UNCHANGED state
    /\ UNCHANGED <<configVars, runVars, passVars, procVars, outVars, memVars,
                   calls, proc_ret, otherVars>>

\* lines 168-170: leave the retry loop on success
run_after_eval ==
    /\ pc = "after_eval"
    /\ pc' = IF state.status = "success" THEN "return" ELSE "memory_update"
    /\ UNCHANGED <<configVars, runVars, state, passVars, procVars, outVars, memVars,
                   calls, loop_ret, proc_ret, otherVars>>

\* lines 171-188: the retry handler
retry_handler ==
    /\ pc = "retry_handler"
    /\ LET s == [AddErr(state) EXCEPT !.retries = @ + 1]
       IN  IF s.retries > max_retries
           THEN /\ state' = [s EXCEPT !.status = "error", !.error = "retries"]
                /\ pc' = "memory_update"
                /\ UNCHANGED escaped
           ELSE /\ state' = [s EXCEPT !.context = "", !.tool_calls = 0,
                               !.iterations = 0, !.status = "processing"]
                /\ IF TimeSleep = "ok"
                   THEN pc' = "memory_update" /\ UNCHANGED escaped
                   ELSE pc' = "raised" /\ escaped' = TimeSleep
    /\ UNCHANGED <<configVars, runVars, passVars, procVars, result, memVars,
                   calls, loop_ret, proc_ret, otherVars>>

\* lines 190-205: the answer and the evaluation go to the memory store;
\* no try statement surrounds these calls
memory_update ==
    /\ pc = "memory_update"
    /\ IF state.answer # ""
       THEN \/ /\ mem_agent' = Obs("memory", TRUE, mem_agent)
               /\ pc' = "retry_head"
               /\ UNCHANGED escaped
            \/ /\ pc' = "raised"
               /\ escaped' = "MemoryError"
               /\ UNCHANGED mem_agent
       ELSE /\ pc' = "retry_head"
            /\ UNCHANGED <<escaped, mem_agent>>
    /\ UNCHANGED <<configVars, runVars, state, passVars, procVars, result, mem_user,
                   calls, loop_ret, proc_ret, otherVars>>

\* line 207: return state
run_return ==
    /\ pc = "return"
    /\ result' = [returned |-> TRUE, status |-> state.status,
                  answer |-> state.answer, error |-> state.error,
                  iterations |-> state.iterations,
                  tool_usage |-> state.tool_usage_history]
    /\ pc' = "returned"
    /\ UNCHANGED <<configVars, runVars, state, passVars, procVars, escaped, memVars,
                   calls, loop_ret, proc_ret, otherVars>>

(***************************************************************************)
(* AgenticRAG of src/src/agent/agent_refactored.py                         *)
(***************************************************************************)
\* AgentStateManager.__init__
StateManagerMaxIterations == 3
StateManagerMaxRetries    == 2

\* what the model may answer: a text of AnswerTexts, or a text that starts
\* with the tool-call marker
ResponseTexts == AnswerTexts \cup {"marker"}

\* AnswerEvaluator.validate_answer: not empty and more than 10 characters
\* once stripped
validate_answer(a) == a = "long"

\* _should_continue_iteration
should_continue_iteration(s) == s.answer = "" \/ ~validate_answer(s.answer)

\* _agent_loop, lines 268-274: the status the loop leaves with
FinalStatus_Unforced(s) == s.status

\* a variant that never forces success
FinalStatus_NeverSuccess(s) ==
    IF s.status \notin {"success", "error"} THEN "failed" ELSE s.status

FinalStatus(s) ==
    IF s.status \notin {"success", "error"}
    THEN IF s.answer \notin {"", "ws"} THEN "success" ELSE "failed"
    ELSE s.status

\* run(), lines 174-189
r_start ==
    /\ pc = "start" /\ impl = "refactored"
    /\ \E mem_ok \in BOOLEAN, env_ok \in BOOLEAN :
        /\ mem_user' = Obs("memory", mem_ok, mem_user)
        /\ state' = IF env_ok THEN InitState("initialized")
                    ELSE AddErr(InitState("error"))
    /\ pc' = "r_loop_head"
    /\ UNCHANGED <<configVars, runVars, passVars, procVars, outVars, mem_agent, calls,
                   loop_ret, proc_ret, otherVars>>

\* _agent_loop, lines 237-238
r_loop_head ==
    /\ pc = "r_loop_head"
    /\ IF state.iterations < max_iterations /\ state.status \notin {"success", "error"}
       THEN /\ state' = [state EXCEPT !.iterations = @ + 1]
            /\ pc' = "r_respond"
       ELSE /\ pc' = "r_loop_exit"
            /\ UNCHANGED state
    /\ UNCHANGED <<configVars, runVars, passVars, procVars, outVars, memVars, calls,
                   loop_ret, proc_ret, otherVars>>

\* lines 241-245 and _process_model_response up to the tool loop
r_respond ==
    /\ pc = "r_respond"
    /\ \/ \E k \in {0, 1} :       \* the prompt provider or the model raises
            /\ Count(k)
            /\ pc' = "r_except"
            /\ UNCHANGED <<state, pending>>
       \/ \E b \in Batches :
            /\ Count(1)
            /\ pending' = b
            /\ state' = [state EXCEPT
                  !.tool_calls = Obs("tool_calls", Min(Len(b), MaxLog), @),
                  !.tool_usage_history =
                      Obs("tool_usage_history", Min(@ + Len(b), UsageCap), @)]
            /\ pc' = "r_tools"
       \/ \E a \in ResponseTexts :
            /\ Count(1)
            /\ state' = IF a = "marker" THEN AddErr(state)
                        ELSE [state EXCEPT !.answer = a,
                                 !.status = IF validate_answer(a) THEN "success"
                                            ELSE "needs_optimization"]
            /\ pc' = "r_check"
            /\ UNCHANGED pending
    /\ UNCHANGED <<configVars, runVars, tool_call_count, tool_results, all_tools_failed,
                   procVars, outVars, memVars, loop_ret, proc_ret, otherVars>>

(***************************************************************************)
(* ToolExecutor.execute_tool, lines 74-91.  The parameters are a dict with *)
(* string keys, named by the keys it has; the tool returns or raises.      *)
(***************************************************************************)
ParameterDicts == {"{}", "{query}", "{query,top_k}"}

\* what the tool returned, as the `result` entry (None prints as "None")
ResultOf(out) == IF out = "none" THEN "None" ELSE out

Execution(raised, invocations, success, res, error) ==
    [raised |-> raised, invocations |-> invocations, success |-> success,
     result |-> res, error |-> error]

\* execute_tool that answers an unknown name with the failure envelope
ExecuteTool_UnknownEnvelope(tools, tool_name, parameters, out) ==
    IF tool_name \notin tools
    THEN Execution("none", << >>, FALSE, "None", "unknown tool")
    ELSE LET inv == << [tool |-> tool_name, kwargs |-> parameters] >>
         IN  IF out = "raise"
             THEN Execution("none", inv, FALSE, "None", "message")
             ELSE Execution("none", inv, TRUE, ResultOf(out), "None")

\* execute_tool without the try statement around tool.run
ExecuteTool_Propagates(tools, tool_name, parameters, out) ==
    IF tool_name \notin tools
    THEN Execution("ValueError", << >>, FALSE, "None", "None")
    ELSE LET inv == << [tool |-> tool_name, kwargs |-> parameters] >>
         IN  IF out = "raise"
             THEN Execution("ToolError", inv, FALSE, "None", "None")
             ELSE Execution("none", inv, TRUE, ResultOf(out), "None")

\* execute_tool(tool_name, parameters) on an executor built from `tools`,
\* when the tool does `out`: the exception raised, the calls made to
\* tools, and the envelope returned
ExecuteTool(tools, tool_name, parameters, out) ==
    IF tool_name \notin tools
    THEN Execution("ValueError", << >>, FALSE, "None", "None")
    ELSE LET inv == << [tool |-> tool_name, kwargs |-> parameters] >>
         IN  IF out = "raise"
             THEN Execution("none", inv, FALSE, "None", "message")
             ELSE Execution("none", inv, TRUE, ResultOf(out), "None")

\* an executor and the arguments of the call about to be made on it
ExecutorInit ==
    \E tools \in SUBSET Registered, name \in Registered \cup {"unknown_tool"},
       parameters \in ParameterDicts, out \in ToolOutcomes :
        executor = [pc |-> "call", tools |-> tools, name |-> name,
                    parameters |-> parameters, outcome |-> out,
                    ret |-> NoExecution]

\* one call of execute_tool
execute_tool ==
    /\ executor.pc = "call"
    /\ executor' = [executor EXCEPT
                       !.pc = "ret",
                       !.ret = ExecuteTool(executor.tools, executor.name,
                                           executor.parameters, executor.outcome)]
    /\ UNCHANGED <<impl, pc, max_retries, max_tool_calls, max_iterations, kwargs, state,
                   saved, tool_call_count, pending, tool_results,
                   all_tools_failed, loop_ret, proc_ret, sub_idx, sub_results,
                   result, escaped, mem_user, mem_agent, calls, runVars,
                   observe, parserVars, memoryVars>>

\* _process_model_response, lines 321-339: one turn of the tool loop
r_tools ==
    /\ pc = "r_tools"
    /\ IF pending = << >>
       THEN /\ pc' = "r_check"
            /\ UNCHANGED <<state, pending, calls, runVars>>
       ELSE IF Head(pending) = "nondict"
       THEN \* tool_call["name"] is a TypeError
            /\ pc' = "r_except"
            /\ pending' = << >>
            /\ UNCHANGED <<state, calls, runVars>>
       ELSE \E out \in ToolOutcomes :
            LET r == ExecuteTool(Registered, Head(pending), "{query}", out)
            IN  /\ Count(Len(r.invocations))
                /\ CountRuns(Len(r.invocations))
                /\ IF r.invocations = << >> THEN UNCHANGED first_run
                   ELSE FirstRun(Len(pending) = 1, Head(pending), out)
                /\ IF r.raised # "none"
                   THEN \* the exception leaves _process_model_response
                        /\ pc' = "r_except"
                        /\ pending' = << >>
                        /\ UNCHANGED state
                   ELSE /\ state' = IF r.success
                                    THEN [state EXCEPT !.context = "c"]
                                    ELSE AddErr(state)
                        /\ pending' = Tail(pending)
                        /\ pc' = "r_tools"
    /\ UNCHANGED <<configVars, tool_call_count, tool_results, all_tools_failed,
                   procVars, outVars, memVars, loop_ret, proc_ret, otherVars>>

\* _agent_loop, lines 248-265: evaluate_answer always finds the answer good
r_check ==
    /\ pc = "r_check"
    /\ state' = IF should_continue_iteration(state) THEN state
                ELSE [state EXCEPT !.status = "success"]
    /\ pc' = "r_loop_head"
    /\ UNCHANGED <<configVars, runVars, passVars, procVars, outVars, memVars, calls,
                   loop_ret, proc_ret, otherVars>>

\* _agent_loop, lines 267-276, and run(), lines 195-213
r_loop_exit ==
    /\ pc = "r_loop_exit"
    /\ \E mem_ok \in BOOLEAN :
        mem_agent' = Obs("memory", mem_ok /\ state.answer # "", mem_agent)
    /\ state' = [state EXCEPT !.status = FinalStatus(state)]
    /\ result' = [returned |-> TRUE, status |-> FinalStatus(state),
                  answer |-> state.answer, error |-> "none",
                  iterations |-> state.iterations,
                  tool_usage |-> state.tool_usage_history]
    /\ pc' = "returned"
    /\ UNCHANGED <<configVars, runVars, passVars, procVars, escaped, mem_user, calls,
                   loop_ret, proc_ret, otherVars>>

\* run(), lines 214-222
r_except ==
    /\ pc = "r_except"
    /\ result' = [returned |-> TRUE, status |-> "error", answer |-> "",
                  error |-> "exception", iterations |-> 0, tool_usage |-> 0]
    /\ pc' = "returned"
    /\ UNCHANGED <<configVars, runVars, state, passVars, procVars, escaped, memVars,
                   calls, loop_ret, proc_ret, otherVars>>

RefactoredNext ==
    \/ r_start \/ r_loop_head \/ r_respond \/ r_tools \/ r_check
    \/ r_loop_exit \/ r_except

AgentNext ==
    \/ run_start \/ run_retry_head
    \/ analyze_query \/ process_query \/ process_sub_start
    \/ process_sub_done \/ process_synthesize
    \/ agent_loop_entry \/ agent_loop_head
    \/ pass_prompt \/ pass_generate \/ pass_dispatch \/ pass_update
    \/ pass_all_failed \/ pass_answer \/ agent_loop_exit
    \/ loop_return_main \/ loop_return_post_opt
    \/ eval_head \/ evaluate_answer \/ optimize_answer \/ optimize_done
    \/ run_after_eval \/ retry_handler \/ memory_update \/ run_return

\* the keyword arguments of the sessions: a max_iterations of
\* 0..MaxIterations; the sessions that record "kwargs" also leave it out
Kwargs(obs) ==
    {Given(n) : n \in 0..MaxIterations}
        \cup (IF "kwargs" \in obs THEN {Omitted} ELSE {})

\* agent_refactored.py never reads its keyword arguments: they vary only
\* in the sessions that record them
RefactoredKwargs(obs) == IF "kwargs" \in obs THEN Kwargs(obs) ELSE {Omitted}

\* a session about to start: which implementation, its limits
Session(obs) ==
    /\ pc = "start"
    /\ \/ /\ impl = "agent"
          /\ max_retries \in 0..MaxRetries
          /\ max_tool_calls \in 0..MaxToolCalls
          /\ kwargs \in Kwargs(obs)
          /\ max_iterations = KwargsGet(kwargs)
       \/ /\ impl = "refactored"
          /\ max_retries = StateManagerMaxRetries
          /\ max_tool_calls = 0
          /\ kwargs \in RefactoredKwargs(obs)
          /\ max_iterations = StateManagerMaxIterations
    /\ state = NoState /\ saved = NoState
    /\ tool_call_count = 0 /\ pending = << >> /\ tool_results = << >>
    /\ all_tools_failed = TRUE
    /\ loop_ret = "main" /\ proc_ret = "run"
    /\ sub_idx = 0 /\ sub_results = << >>
    /\ result = NoResult /\ escaped = "none"
    /\ mem_user = FALSE /\ mem_agent = FALSE
    /\ calls = 0 /\ tool_runs = 0 /\ first_run = "none" /\ observe = obs
    /\ ExecutorIdle
    /\ ParserIdle /\ MemoryIdle

Init == Session({})

Next == AgentNext \/ RefactoredNext
Spec == Init /\ [][Next]_vars

\* the interpreter always executes the next statement of run()
FairSpec == Init /\ [][Next]_vars /\ WF_vars(Next)

\* the same sessions, counting the collaborator calls
InitCalls == Session({"calls"})
SpecCalls == InitCalls /\ [][Next]_vars

\* the same sessions, with the keyword arguments of run() varied
InitKwargs == Session({"kwargs"})
SpecKwargs == InitKwargs /\ [][Next]_vars

\* a session of which the tool invocations are counted
InitRuns == Session({"tool_runs"})
SpecRuns == InitRuns /\ [][Next]_vars
FairSpecRuns == InitRuns /\ [][Next]_vars /\ WF_vars(Next)

\* a session of which the tool usage, the first tool invocation and the
\* errors are recorded
InitUsage == Session({"tool_usage_history", "tool_runs", "first_run", "errors"})
SpecUsage == InitUsage /\ [][Next]_vars

\* a session of which the query, the query analysis and the optimization
\* plan are recorded
InitQuery == Session({"query", "query_analysis", "plan"})
SpecQuery == InitQuery /\ [][Next]_vars

\* a session of which the calls of add_interaction are recorded
InitRecorded == Session({"memory"})
SpecRecorded == InitRecorded /\ [][Next]_vars

\* _evaluate_answer on its own: a session whose agent loop has just
\* returned an answer, of which the evaluation is recorded
EvalNext == evaluate_answer
InitEval ==
    /\ impl = "agent"
    /\ pc = "evaluate"
    /\ max_retries \in 0..MaxRetries
    /\ max_tool_calls \in 0..MaxToolCalls
    /\ max_iterations \in 1..(MaxIterations + 1)
    /\ kwargs = Given(max_iterations)
    /\ \E i \in 0..MaxIterations, c \in {"", "c"}, a \in ModelTexts :
          /\ i < max_iterations
          /\ state = [InitState("success") EXCEPT
                         !.iterations = i, !.context = c, !.answer = a]
    /\ saved = NoState
    /\ tool_call_count = 0 /\ pending = << >> /\ tool_results = << >>
    /\ all_tools_failed = TRUE
    /\ loop_ret = "main" /\ proc_ret = "run"
    /\ sub_idx = 0 /\ sub_results = << >>
    /\ result = NoResult /\ escaped = "none"
    /\ mem_user = FALSE /\ mem_agent = FALSE
    /\ calls = 0 /\ tool_runs = 0 /\ first_run = "none" /\ observe = {"evaluation", "errors"}
    /\ ExecutorIdle
    /\ ParserIdle /\ MemoryIdle
SpecEval == InitEval /\ [][EvalNext]_vars

\* _optimize_answer on its own: a session whose evaluation has just asked
\* for an iteration, of which the optimization is recorded
OptimizeNext == optimize_answer
InitOptimize ==
    /\ impl = "agent"
    /\ pc = "optimize"
    /\ max_retries \in 0..MaxRetries
    /\ max_tool_calls \in 0..MaxToolCalls
    /\ max_iterations \in 1..(MaxIterations + 1)
    /\ kwargs = Given(max_iterations)
    /\ \E i \in 0..MaxIterations, c \in {"", "c"}, a \in ModelTexts \ {""},
          q \in {"q", "rw"} :
          /\ i < max_iterations
          /\ state = [InitState("success") EXCEPT
                         !.iterations = i, !.context = c, !.answer = a,
                         !.query = q, !.need_iteration = TRUE]
    /\ saved = NoState
    /\ tool_call_count = 0 /\ pending = << >> /\ tool_results = << >>
    /\ all_tools_failed = TRUE
    /\ loop_ret = "main" /\ proc_ret = "run"
    /\ sub_idx = 0 /\ sub_results = << >>
    /\ result = NoResult /\ escaped = "none"
    /\ mem_user = FALSE /\ mem_agent = FALSE
    /\ calls = 0 /\ tool_runs = 0 /\ first_run = "none"
    /\ observe = {"opt_response", "plan", "query", "calls", "errors"}
    /\ ExecutorIdle
    /\ ParserIdle /\ MemoryIdle
SpecOptimize == InitOptimize /\ [][OptimizeNext]_vars

\* ToolExecutor.execute_tool on its own
ExecutorNext == execute_tool
InitExecutor ==
    /\ ExecutorInit
    /\ impl = "refactored" /\ pc = "idle"
    /\ max_retries = 0 /\ max_tool_calls = 0 /\ max_iterations = 0
    /\ kwargs = Omitted
    /\ state = NoState /\ saved = NoState
    /\ tool_call_count = 0 /\ pending = << >> /\ tool_results = << >>
    /\ all_tools_failed = TRUE
    /\ loop_ret = "main" /\ proc_ret = "run"
    /\ sub_idx = 0 /\ sub_results = << >>
    /\ result = NoResult /\ escaped = "none"
    /\ mem_user = FALSE /\ mem_agent = FALSE
    /\ calls = 0 /\ tool_runs = 0 /\ first_run = "none" /\ observe = {}
    /\ ParserIdle /\ MemoryIdle
SpecExecutor == InitExecutor /\ [][ExecutorNext]_vars

(***************************************************************************)
(* Specifications                                                          *)
(***************************************************************************)
ParserNext == Parse
InitParser == ParserInit /\ MemoryIdle /\ AgentIdle
SpecParser == InitParser /\ [][ParserNext]_vars

MemoryNext ==
    \/ \E role \in Roles : add_interaction(role)
    \/ \E key \in Keys : add_knowledge(key)
    \/ \E r \in SeqsUpTo({"success", "error"}, MaxResults) : update_with_tool_results(r)
    \/ add_final_answer
    \/ reset
    \/ \E key \in Keys : get_knowledge(key)
InitMemory == MemoryInit /\ ParserIdle /\ AgentIdle
SpecMemory == InitMemory /\ [][MemoryNext]_vars

\* a store that is filled, compressed, read and reset
CompressNext ==
    \/ current_step <= MaxCapacity /\ add_interaction("user")
    \/ current_step <= MaxCapacity /\ add_knowledge("k1")
    \/ \E kind \in ModelKinds, t \in Summaries :
          (kind # "text" => t = << >>) /\ compress_memory(kind, t)
    \/ \E c \in Contexts : get_context_with_memory(c)
    \/ reset
InitCompress ==
    /\ max_history_size \in 1..MaxCapacity
    /\ max_compressed_size \in 1..MaxCompressedSize
    /\ steps = << >>
    /\ current_step = 0
    /\ knowledge_index = << >>
    /\ compressed_memory = << >>
    /\ appended = << >>
    /\ only_interactions = TRUE
    /\ last_op = "init"
    /\ key_status = NeverAdded
    /\ last_compress = NoCompress
    /\ ret = NoRet
    /\ ParserIdle /\ AgentIdle
SpecCompress == InitCompress /\ [][CompressNext]_vars

(***************************************************************************)
(* Properties of parse_tool_calls (SpecParser)                             *)
(***************************************************************************)
\* the text between the token positions i and j (both 1-based, exclusive)
Between(s, i, j) == SubSeq(s, i + 1, j - 1)

\* a bare object, or an array "[" o ("," o)* "]" of objects, whitespace aside
IsObjectArray(b) ==
    LET t == NoWs(b)
    IN  /\ Len(t) >= 2
        /\ t[1] = "[" /\ t[Len(t)] = "]"
        /\ Len(t) = 2 \/ Len(t) % 2 = 1
        /\ \A p \in 2..(Len(t) - 1) :
              IF p % 2 = 0 THEN t[p] \in Objects ELSE t[p] = ","
IsBareObject(b) == Len(NoWs(b)) = 1 /\ NoWs(b)[1] \in Objects
IsWellFormedBlock(b) == IsObjectArray(b) \/ IsBareObject(b)

\* the objects of a block in the order in which they are written
ObjectsOf(b) ==
    LET objs == SelectSeq(b, LAMBDA t : t \in Objects)
    IN  [i \in 1..Len(objs) |-> Atom(objs[i])]

FirstBegin == Find(response, "B") + 1
FirstEnd   == Find(response, "E") + 1

\* C6 as stated: ANY begin marker followed by a well-formed block followed
\* by an end marker makes the parser return the objects of that block
C6_AnyBlockParsed ==
    parse_pc = "ret" =>
        \A i, j \in 1..Len(response) :
            (/\ i < j
             /\ response[i] = "B" /\ response[j] = "E"
             /\ IsWellFormedBlock(Between(response, i, j)))
            => parse_result = ObjectsOf(Between(response, i, j))

\* C6 (amended): when the FIRST begin marker of the text is followed by a
\* JSON array of k {name, parameters} objects (or a bare object) and then by
\* the FIRST end marker of the text, parse_tool_calls returns exactly those
\* k objects in array order (one element for a bare object)
C6_FirstBlockParsed ==
    parse_pc = "ret" =>
        ((/\ FirstBegin >= 1 /\ FirstBegin < FirstEnd
          /\ IsWellFormedBlock(Between(response, FirstBegin, FirstEnd)))
         => /\ ~parse_raised
            /\ parse_result = ObjectsOf(Between(response, FirstBegin, FirstEnd)))

\* a block of two different objects was parsed, with text before and after it
C6_Witness ==
    /\ parse_pc = "ret"
    /\ FirstBegin > 1 /\ FirstBegin < FirstEnd /\ FirstEnd < Len(response)
    /\ IsObjectArray(Between(response, FirstBegin, FirstEnd))
    /\ parse_result = << Atom("o2"), Atom("o1") >>

\* C7: when the begin marker or the end marker is absent, and when the
\* (first) end marker precedes the (first) begin marker, parse_tool_calls
\* returns the empty list
C7_EmptyWithoutMarkerPair ==
    parse_pc = "ret" =>
        ((\/ Find(response, "B") = -1
          \/ Find(response, "E") = -1
          \/ Find(response, "E") < Find(response, "B"))
         => parse_result = << >> /\ ~parse_raised)

\* an end marker, then a begin marker, an object and a second end marker
C7_Witness ==
    /\ parse_pc = "ret"
    /\ response = << "E", "B", "o1", "E" >>
    /\ parse_result = << >>

\* the text between the first begin marker and the first end marker after it
MarkersValid == FirstBegin >= 1 /\ FirstBegin < FirstEnd
BlockBody    == Strip(Between(response, FirstBegin, FirstEnd))

\* C8: parse_tool_calls never raises, and when the text between valid
\* begin/end markers is not valid JSON it returns the empty list
C8_NeverRaisesFailOpen ==
    parse_pc = "ret" =>
        /\ ~parse_raised
        /\ (MarkersValid /\ ~JsonLoads(BlockBody).ok) => parse_result = << >>

\* malformed, non-empty JSON between valid markers was parsed
C8_Witness ==
    /\ parse_pc = "ret"
    /\ MarkersValid
    /\ BlockBody # << >>
    /\ ~JsonLoads(BlockBody).ok
    /\ parse_result = << >>

(***************************************************************************)
(* Properties of the Memory Store (SpecMemory)                             *)
(***************************************************************************)
\* the last n elements of s
LastN(s, n) == IF Len(s) <= n THEN s ELSE SubSeq(s, Len(s) - n + 1, Len(s))

\* C9: after more than N add_interaction calls on a fresh store the log
\* holds exactly the N most recently appended interactions, in order
C9_KeepsLastN ==
    (only_interactions /\ Len(appended) > max_history_size)
        => /\ Len(steps) = max_history_size
           /\ Seqs(steps) = LastN(appended, max_history_size)

\* C10: after every public operation the log holds at most N entries
C10_AtMostN == Len(steps) <= max_history_size

(***************************************************************************)
(* Claims about run()                                                      *)
(***************************************************************************)
\* C1: no exception escapes run(): whatever the collaborators do, run()
\* never ends by raising to its caller
C1_NoExceptionEscapes == pc # "raised" /\ escaped = "none"

\* C2: run() terminates: every session eventually returns (or at least ends)
C2_RunTerminates == <>(pc \in {"returned", "raised"})

\* C3: the collaborator calls of one run() of agent.py number at most
\* max_retries * max_iterations * max_tool_calls
C3_CallsWithinProduct ==
    impl = "agent" => calls <= max_retries * max_iterations * max_tool_calls

\* C4: whenever run() returns, the returned status is success, failed or error
TerminalStatuses == {"success", "failed", "error"}
C4_TerminalStatus == result.returned => result.status \in TerminalStatuses

\* run() returned after the agent loop ended without an accepted answer
C4_Witness ==
    /\ result.returned
    /\ pc = "returned"
    /\ result.status = "failed"
    /\ state.iterations = max_iterations

\* C5: whenever run() returns with status error the result has an `error`
\* entry
C5_ErrorCarriesMessage ==
    (result.returned /\ result.status = "error") => result.error # "none"

\* C11: once an insertion has evicted entries of the log, get_knowledge
\* returns None for every key added before that insertion and not added
\* again since
C11_StaleKeysNotFound ==
    /\ \A k \in Keys :
          key_status[k] = "stale" => GetKnowledge(knowledge_index, k) = None
    /\ (ret.op = "get_knowledge" /\ key_status[ret.key] = "stale")
          => ret.entry = None

\* a key added before an eviction was looked up on the truncated log
C11_Witness ==
    /\ ret.op = "get_knowledge"
    /\ key_status[ret.key] = "stale"
    /\ ret.entry = None
    /\ max_history_size > 1
    /\ Len(steps) = max_history_size

FailedCompress ==
    /\ last_op' = "compress_memory"
    /\ last_compress'.called
    /\ last_compress'.model \in ModelFailures

C13_IdentityWithoutCompression ==
    (ret.op = "get_context_with_memory" /\ ~last_compress.called)
        => ret.text = ret.arg

\* get_context_with_memory ran on a filled, never compressed store
C13_Witness ==
    /\ ret.op = "get_context_with_memory"
    /\ ~last_compress.called
    /\ steps # << >>
    /\ ret.arg # << >>
    /\ ret.text = ret.arg

EndsWith(text, c) ==
    /\ Len(text) >= Len(c)
    /\ SubSeq(text, Len(text) - Len(c) + 1, Len(text)) = c
StartsWith(text, p) ==
    /\ Len(text) >= Len(p)
    /\ SubSeq(text, 1, Len(p)) = p

\* C14: after compress_memory ran on a non-empty log with a model that
\* returned a summary text, get_context_with_memory(c) returns a text that
\* ends with c and has a summary section before it
C14_SummarySectionThenContext ==
    (/\ ret.op = "get_context_with_memory"
     /\ last_compress.called
     /\ last_compress.entries > 0
     /\ last_compress.model = "text")
        => /\ EndsWith(ret.text, ret.arg)
           /\ Len(ret.text) >= Len(ret.arg) + Len(SummaryHeader)
           /\ StartsWith(ret.text, SummaryHeader)

(***************************************************************************)
(* Claims about _evaluate_answer                                           *)
(***************************************************************************)
Evaluated == pc \in {"optimize", "after_eval"} /\ state.eval_response.kind # "none"

\* the response text held an object that json.loads accepted
ParsedObject(r) ==
    /\ r.kind = "text"
    /\ \E i, j \in 1..Len(r.text) :
          /\ r.text[i] = "{" /\ \A k \in 1..(i-1) : r.text[k] # "{"
          /\ r.text[j] = "}" /\ \A k \in (j+1)..Len(r.text) : r.text[k] # "}"
          /\ i < j
          /\ SubSeq(r.text, i, j) \in {<< "{", "}" >>, << "{", "m", "}" >>}

\* the members the parsed object has
ParsedNeed(r) ==
    IF \E i \in 1..(Len(r.text) - 2) : SubSeq(r.text, i, i + 2) = << "{", "m", "}" >>
    THEN r.need ELSE "absent"
ParsedRating(r) ==
    IF \E i \in 1..(Len(r.text) - 2) : SubSeq(r.text, i, i + 2) = << "{", "m", "}" >>
    THEN r.rating ELSE "absent"

\* C15: after an evaluation whose response parsed, need_iteration is true
\* exactly when the need_iteration member is affirmative (the affirmative
\* string or the JSON boolean true) or overall_rating is poor or very poor
C15_NeedIterationIff ==
    (Evaluated /\ ParsedObject(state.eval_response))
        => (state.need_iteration <=>
               \/ ParsedNeed(state.eval_response) \in {"yes_zh", "json_true"}
               \/ ParsedRating(state.eval_response) \in {"poor", "very_poor"})

\* C16: when the evaluation response holds no parseable object, and when
\* the evaluation model raises, the evaluation is the neutral default,
\* need_iteration is false and the status stays success
C16_NeutralOnUnparseable ==
    (/\ Evaluated
     /\ \/ state.eval_response.kind = "model_raise"
        \/ state.eval_response.kind = "text" /\ ~ParsedObject(state.eval_response))
        => /\ state.evaluation = NeutralEvaluation
           /\ state.need_iteration = FALSE
           /\ state.status = "success"
           /\ state.error = "none"

\* braces in the response, with text between them that is not an object
C16_Witness ==
    /\ Evaluated
    /\ state.eval_response.kind = "text"
    /\ Len(state.eval_response.text) = 3
    /\ Find(state.eval_response.text, "{") >= 0
    /\ Find(state.eval_response.text, "}") > Find(state.eval_response.text, "{")
    /\ ~ParsedObject(state.eval_response)
    /\ state.evaluation = NeutralEvaluation
    /\ pc = "after_eval"

(***************************************************************************)
(* Claims about tool dispatch                                              *)
(***************************************************************************)
Dispatching == pc \in {"pass_dispatch", "r_tools"} /\ pending # << >>

\* C17: dispatching a call to an unregistered tool raises nothing: the
\* call gets a failure result and the next call of the batch is
\* dispatched next
C17_UnknownToolContinues ==
    [][(Dispatching /\ Head(pending) = "unknown_tool")
          => /\ pc' = pc
             /\ pending' = Tail(pending)
             /\ impl = "agent" =>
                   /\ Len(tool_results') = Len(tool_results) + 1
                   /\ tool_results'[Len(tool_results')].status = "error"]_vars

\* C18: execute_tool with a name that is not registered raises ValueError
\* and calls no tool
C18_UnknownToolRaises ==
    (executor.pc = "ret" /\ executor.name \notin executor.tools)
        => /\ executor.ret.raised = "ValueError"
           /\ executor.ret.invocations = << >>

\* execute_tool returned for a name missing from a non-empty executor
C18_Witness ==
    /\ executor.pc = "ret"
    /\ executor.tools # {}
    /\ executor.name \notin executor.tools
    /\ executor.ret.raised = "ValueError"

\* C19: execute_tool for a registered tool calls that tool once with the
\* parameters given, raises nothing, and returns the success envelope with
\* the tool's result or the failure envelope with the message
C19_EnvelopeForRegisteredTool ==
    (executor.pc = "ret" /\ executor.name \in executor.tools)
        => /\ executor.ret.raised = "none"
           /\ executor.ret.invocations =
                 << [tool |-> executor.name, kwargs |-> executor.parameters] >>
           /\ IF executor.outcome = "raise"
              THEN /\ executor.ret.success = FALSE
                   /\ executor.ret.result = "None"
                   /\ executor.ret.error = "message"
              ELSE /\ executor.ret.success = TRUE
                   /\ executor.ret.result = ResultOf(executor.outcome)
                   /\ executor.ret.error = "None"

\* the registered tool raised and execute_tool returned the failure envelope
C19_Witness ==
    /\ executor.pc = "ret"
    /\ executor.name \in executor.tools
    /\ executor.outcome = "raise"
    /\ executor.parameters = "{query,top_k}"
    /\ executor.ret.success = FALSE
    /\ executor.ret.error = "message"

(***************************************************************************)
(* Claims about the iteration state machine of agent_refactored.py         *)
(***************************************************************************)
Unsettled(s) == s.status \notin {"success", "error"}

\* the loop test of _agent_loop runs another pass exactly while the session
\* is unsettled and below max_iterations
AnotherPassWhileUnsettled ==
    pc = "r_loop_head" =>
        IF Unsettled(state) /\ state.iterations < max_iterations
        THEN pc' = "r_respond" /\ state'.iterations = state.iterations + 1
        ELSE pc' = "r_loop_exit"

\* C20 as stated: while the session is neither success nor error and
\* iterations < max_iterations another pass is run; after the loop an
\* unsettled session returns success if its answer is not the empty string
\* and failed otherwise
C20_ForcedFinalStatus ==
    [][/\ AnotherPassWhileUnsettled
       /\ (pc = "r_loop_exit" /\ Unsettled(state))
             => result'.status = IF state.answer # "" THEN "success" ELSE "failed"]_vars

\* C20 (amended): the same, with success only for an answer that is not
\* empty once its whitespace is stripped
C20_ForcedFinalStatusNonBlank ==
    [][/\ AnotherPassWhileUnsettled
       /\ (pc = "r_loop_exit" /\ Unsettled(state))
             => result'.status = IF state.answer \notin {"", "ws"}
                                 THEN "success" ELSE "failed"]_vars

\* after max_iterations passes a short answer was forced to success
C20_Witness ==
    /\ impl = "refactored"
    /\ result.returned
    /\ state.iterations = max_iterations
    /\ state.answer = "short"
    /\ result.status = "success"

\* C21: the tool invocations of one run() of AgenticRAG (agent.py), summed
\* over every call of _agent_loop (the main one, those after an optimization,
\* those of the sub-questions), never exceed max_tool_calls.
C21_ToolRunsWithinLimit ==
    impl = "agent" => tool_runs <= max_tool_calls

\* the batch being dispatched asks for one tool, which is not registered,
\* and no tool has been run in the session
UnknownToolOnly ==
    /\ pc \in {"pass_dispatch", "r_tools"}
    /\ pending = << "unknown_tool" >>
    /\ tool_results = << >>
    /\ tool_runs = 0

\* C22: when the model's response requests only a tool that is not
\* registered, the session goes on to the fallback generation (lines 406-424
\* of agent.py) or to status success: the unknown tool does not end it
C22_UnknownToolOnlyReachesFallback ==
    UnknownToolOnly ~>
        (state.status = "success" \/ (pc = "pass_finish" /\ all_tools_failed))

\* run() has returned from a session in which the first tool invocation was
\* the one retrieval call of its batch and returned documents, no other tool
\* was run, nothing was recorded in errors or raised to run(), no retry and
\* no optimization took place, and the model's answer was text
RetrievalThenAnswer ==
    /\ pc = "returned"
    /\ first_run = "retrieval_docs"
    /\ tool_runs = 1
    /\ state.errors = 0
    /\ state.answer \notin {"", "ws"}
    /\ IF impl = "agent"
       THEN state.retries = 0 /\ state.iterations = 0
       ELSE result.error = "none"

\* C23: when a retrieval call succeeds with a document on the first pass and
\* the model then answers with text, run() returns status success, a
\* non-empty answer and a tool usage of length exactly 1
C23_RetrievalThenAnswer ==
    RetrievalThenAnswer =>
        /\ result.status = "success"
        /\ result.answer # ""
        /\ result.tool_usage = 1

C23_Witness == RetrievalThenAnswer /\ impl = "agent"

EntryInLog(k) ==
    \E i \in 1..Len(steps) : steps[i] = TaskStep(knowledge_index[k], k)

\* C25: every key for which get_knowledge returns an entry refers to a
\* knowledge entry that is still in the bounded log
C25_FoundKeysAreInLog ==
    /\ \A k \in Keys :
          GetKnowledge(knowledge_index, k) # None => EntryInLog(k)
    /\ (ret.op = "get_knowledge" /\ ret.entry # None)
          => /\ ret.key \in DOMAIN knowledge_index
             /\ ret.entry.step = knowledge_index[ret.key]
             /\ EntryInLog(ret.key)

\* a key was found on a log from which entries have been evicted
C25_Witness ==
    /\ ret.op = "get_knowledge"
    /\ ret.entry # None
    /\ EntryInLog(ret.key)
    /\ Len(appended) > Len(steps)

\* the step of a pass in which the response holds no tool call
DirectAnswer == pc = "pass_generate" /\ pc' = "loop_exit"

\* C26: in a pass where the parser yields no tool calls the raw text becomes
\* the answer and the status success, with the one generation call and no
\* tool invocation; the loop then exits without another call
C26_DirectAnswerExitsLoop ==
    [][/\ DirectAnswer =>
            /\ state'.status = "success"
            /\ state'.answer \in ModelTexts
            /\ calls' = Min(calls + 1, CallCap)
            /\ pending' = << >>
       /\ (pc = "loop_exit" /\ state.status = "success") =>
            /\ pc' = "loop_return"
            /\ calls' = calls
            /\ state' = state]_vars

\* a pass without tool calls has just made its text the answer
C26_Witness ==
    /\ pc = "loop_exit"
    /\ max_tool_calls > 0 /\ tool_call_count = 0
    /\ state.status = "success"
    /\ state.answer = "long"
    /\ state.context = ""
    /\ calls < CallCap

\* C27: when every tool call of a pass has failed, the pass ends the loop:
\* with status success and the generated answer, or with status error and an
\* error string; no further pass is run in that call of _agent_loop
C27_AllFailedEndsLoop ==
    [][(pc = "pass_finish" /\ all_tools_failed) =>
            /\ pc' = "loop_return"
            /\ state'.status \in {"success", "error"}
            /\ state'.status = "success" => state'.answer \in ModelTexts
            /\ state'.status = "error" => state'.error # "none"]_vars

\* C28: tool_usage_history never holds more than 3 entries, and neither
\* does the tool usage that run() returns
C28_UsageAtMostThree ==
    /\ state.tool_usage_history <= UsageLimit
    /\ result.returned => result.tool_usage <= UsageLimit

\* C29: when an attempt has failed and retries remain, the next attempt is
\* started, with context empty, iterations 0, status processing and the
\* retries count incremented
C29_RetryStartsAfresh ==
    (pc = "retry_handler" /\ state.retries < max_retries) ~>
        /\ pc = "analyze" /\ proc_ret = "run"
        /\ state.retries > 0
        /\ state.context = ""
        /\ state.iterations = 0
        /\ state.status = "processing"

\* C30: run() executes the pipeline at most max_retries times.  Every attempt
\* but the first follows an increment of retries or an attempt that left no
\* exception, so the attempt that starts is at least attempt retries + 1:
\* it is within max_retries only if retries < max_retries
C30_AttemptsWithinMaxRetries ==
    (impl = "agent" /\ pc = "analyze" /\ proc_ret = "run")
        => state.retries + 1 <= max_retries

\* run() has ended and every attempt it made has failed
EndedAfterFailures ==
    /\ impl = "agent"
    /\ pc \in {"returned", "raised"}
    /\ state.retries > 0
    /\ state.status # "success"

\* C31: when every attempt of a run() has failed, the run ends with status
\* error and the error message built from the last exception (line 180)
C31_ExhaustedRetriesGiveError ==
    EndedAfterFailures =>
        /\ pc = "returned"
        /\ result.status = "error"
        /\ result.error = "retries"

\* C32: original_query is the query passed to run() in every state of the
\* session, in the states of the sub-questions too
C32_OriginalQueryImmutable ==
    (impl = "agent" /\ state # NoState) => state.original_query = "q"

\* the query has been rewritten and extended with focus text
C32_Witness ==
    /\ impl = "agent"
    /\ state.query = "rw_focus"
    /\ state.original_query = "q"

\* _optimize_answer has run
Optimized == pc \in {"opt_done", "analyze"} /\ state.opt_response.kind # "none"

\* the number of model calls that the recorded optimization made
OptCalls(r) ==
    (IF r.critique = "prompt_raise" THEN 0 ELSE 1)
    + (IF r.reflection = "prompt_raise" THEN 0 ELSE 1)
    + (IF r.kind = "prompt_raise" THEN 0 ELSE 1)

\* C33: _optimize_answer never sets status error; a failing self-critique
\* or reflection does not keep the later calls from being made; and when the
\* synthesis call fails or its output holds no JSON object, the plan has
\* next_action regenerate
C33_OptimizeIsFaultTolerant ==
    Optimized =>
        /\ state.status = "success" /\ state.error = "none"
        /\ calls = OptCalls(state.opt_response)
        /\ (\/ state.opt_response.kind # "text"
            \/ ~ParsedObject(state.opt_response))
               => state.plan = "regenerate"

\* the self-critique failed and the plan of the synthesis was still adopted
C33_Witness ==
    /\ Optimized
    /\ state.opt_response.critique = "model_raise"
    /\ state.opt_response.reflection = "prompt_raise"
    /\ state.plan = "re_retrieve"
    /\ calls = 2

\* the query q followed by the focus text
WithFocus(q) ==
    CASE q = "q" -> "q_focus" [] q = "rw" -> "rw_focus" [] OTHER -> q

\* C34: executing a plan with next_action re_retrieve empties the context
\* and appends the focus text (the plan's action_details, when it has any)
\* to the query; regenerate and every unrecognised action leave query,
\* context and answer as they were
C34_PlanEffects ==
    [][pc = "optimize" =>
        /\ state'.answer = state.answer
        /\ state'.plan = "re_retrieve" =>
              /\ state'.context = ""
              /\ state'.query = IF state'.opt_response.details
                                 THEN WithFocus(state.query) ELSE state.query
        /\ state'.plan \in {"regenerate", "other", "absent"} =>
              /\ state'.context = state.context
              /\ state'.query = state.query]_vars

\* a re_retrieve plan was executed on a rewritten query with a context
C34_Witness ==
    /\ Optimized
    /\ state.plan = "re_retrieve"
    /\ state.opt_response.details
    /\ state.query = "rw_focus"
    /\ state.context = ""
    /\ state.answer = "long"

\* C35: the query analysis that _analyze_query returns always has an action,
\* one of none, rewrite and decompose
C35_AnalysisHasAction ==
    (impl = "agent" /\ pc = "process")
        => state.action \in {"none", "rewrite", "decompose"}

\* the main agent loop of an attempt whose analysis selected decompose: the
\* answer is the one that the synthesis over the sub-answers produced
AfterSynthesis ==
    /\ impl = "agent"
    /\ ~state.is_sub
    /\ state.action = "decompose"
    /\ loop_ret = "main"
    /\ pc \in {"loop_entry", "loop_head", "pass_prompt", "pass_generate",
               "pass_dispatch", "pass_update", "pass_finish", "loop_exit"}

\* C36: when the analysis selects decompose, no later step of the attempt
\* replaces the answer that the synthesis call produced
C36_SynthesisAnswerKept ==
    [][AfterSynthesis => state'.answer = state.answer]_vars

\* C37: after compress_memory has returned, the stored summary has at most
\* max_compressed_size characters
C37_SummaryWithinBudget ==
    last_op = "compress_memory" => Len(compressed_memory) <= max_compressed_size

\* C38: whenever run() of agent.py returns a non-empty answer, it has
\* appended an agent interaction holding the answer to the memory store
C38_AnswerRecorded ==
    (impl = "agent" /\ pc = "returned" /\ result.answer # "") => mem_agent

\* C39: in every state of a session iterations is at most the
\* max_iterations run() was called with (3 when it was left out), and so
\* is the iterations count that run() returns
C39_IterationsWithinPassedLimit ==
    /\ state # NoState => state.iterations <= KwargsGet(kwargs)
    /\ result.returned => result.iterations <= KwargsGet(kwargs)

\* C40: within one invocation of the agent loop at most max_tool_calls
\* registered tools are invoked: a tool is invoked only while the count is
\* below max_tool_calls, the dispatch that reaches max_tool_calls drops the
\* rest of the batch, and from then on the loop starts no further pass
C40_ToolCallsWithinLimit ==
    [][impl = "agent" =>
          /\ tool_call_count' <= max_tool_calls
          /\ tool_call_count' = tool_call_count + 1 => tool_call_count < max_tool_calls
          /\ (pc' = "pass_dispatch" /\ tool_call_count' >= max_tool_calls)
                 => pending' = << >>
          /\ (pc = "loop_head" /\ tool_call_count >= max_tool_calls)
                 => pc' = "loop_exit"]_vars
C40_Witness ==
    /\ impl = "agent" /\ pc = "loop_head"
    /\ max_tool_calls > 1
    /\ tool_call_count = max_tool_calls
    /\ state.status = "processing"

====
